---- MODULE Spec2Model ----
(***************************************************************************)
(* Quota normalisation and aggregation core of the management centre:      *)
(* buildGeminiCliQuotaBuckets (src/src/utils/format.ts, lookup-table       *)
(* grouping with preferred model) and buildAntigravityQuotaGroups          *)
(* (src/unnamed/part_002, Claude family merge), with their helpers.        *)
(*                                                                         *)
(* Encoding.  A TypeScript value of type `T | null` or `T | undefined` is  *)
(* a sequence of length at most one: <<>> is null/undefined, <<v>> is the  *)
(* value v.  Strings are TLA+ strings.  A quota fraction f in [0,1] is the *)
(* integer 100*f (so 1.0 is Scale); amounts are integers.  A field of type *)
(* `number` that the code guards against null is kept optional too, so the *)
(* guard is part of the model.                                             *)
(***************************************************************************)
EXTENDS Integers, Sequences, FiniteSets, TLC

VARIABLES call, buckets, models, bucketStates, groups, pc, args, result, heap,
          mounted, loadingBlocksClick, loading, listPending, isLoginInProgress,
          authUrl, oauthState, pollingTimer, timers, authPending, polls, logins,
          notifications, completed

\* The state of a rendered TraeSection; see the section on TraeSection.tsx below.
traeVars ==
  <<mounted, loadingBlocksClick, loading, listPending, isLoginInProgress, authUrl,
    oauthState, pollingTimer, timers, authPending, polls, logins, notifications,
    completed>>

vars ==
  <<call, buckets, models, bucketStates, groups, pc, args, result, heap, traeVars>>

\* No TraeSection is rendered: the calls of the pure functions run without one.
NoTraeSection ==
  /\ mounted = FALSE
  /\ loadingBlocksClick = FALSE
  /\ loading = FALSE
  /\ listPending = 0
  /\ isLoginInProgress = FALSE
  /\ authUrl = <<>>
  /\ oauthState = <<>>
  /\ pollingTimer = <<>>
  /\ timers = {}
  /\ authPending = {}
  /\ polls = <<>>
  /\ logins = 0
  /\ notifications = <<>>
  /\ completed = {}

-----------------------------------------------------------------------------
(* Optional values *)

Null == <<>>
Undefined == <<>>
Some(v) == <<v>>
Val(o) == o[1]

\* 1.0 as a fraction: fractions are held in hundredths.
Scale == 100

MathMin(a, b) == IF a <= b THEN a ELSE b

-----------------------------------------------------------------------------
(* Timestamps: new Date(s).getTime() on the strings the model uses.  The   *)
(* instants are in seconds since the epoch; any other string does not      *)
(* parse (NaN).  Two of the strings denote the same instant.               *)

NaN == <<>>

DateGetTime(s) ==
  CASE s = "2025-01-01T00:00:00Z" -> Some(1735689600)
    [] s = "2025-01-01T00:00:00.000Z" -> Some(1735689600)
    [] s = "2025-01-02T00:00:00Z" -> Some(1735776000)
    [] OTHER -> NaN

\* !s for an optional string: undefined and the empty string are falsy.
Falsy(s) == s = Undefined \/ s = Some("")

\* Mutant: the tie between equal instants broken for the second argument.
pickEarlierResetTimeStrict(current, next) ==
  IF Falsy(current) THEN next
  ELSE IF Falsy(next) THEN current
  ELSE LET currentTime == DateGetTime(Val(current))
           nextTime == DateGetTime(Val(next))
       IN  IF currentTime = NaN THEN next
           ELSE IF nextTime = NaN THEN current
           ELSE IF Val(currentTime) < Val(nextTime) THEN current ELSE next

\* Mutant: the comparison turned round, so the later time is kept.
pickLaterResetTime(current, next) ==
  IF Falsy(current) THEN next
  ELSE IF Falsy(next) THEN current
  ELSE LET currentTime == DateGetTime(Val(current))
           nextTime == DateGetTime(Val(next))
       IN  IF currentTime = NaN THEN next
           ELSE IF nextTime = NaN THEN current
           ELSE IF Val(currentTime) >= Val(nextTime) THEN current ELSE next

pickEarlierResetTime(current, next) ==
  IF Falsy(current) THEN next
  ELSE IF Falsy(next) THEN current
  ELSE LET currentTime == DateGetTime(Val(current))
           nextTime == DateGetTime(Val(next))
       IN  IF currentTime = NaN THEN next
           ELSE IF nextTime = NaN THEN current
           ELSE IF Val(currentTime) <= Val(nextTime) THEN current ELSE next

\* Mutant: null counted as zero.
minNullAsZero(current, next) ==
  Some(MathMin(IF current = Null THEN 0 ELSE Val(current),
               IF next = Null THEN 0 ELSE Val(next)))

\* Mutant: null treated as a value that wins, as Math.min alone would not do.
minNullPropagates(current, next) ==
  IF current = Null \/ next = Null THEN Null
  ELSE Some(MathMin(Val(current), Val(next)))

minNullableNumber(current, next) ==
  IF current = Null THEN next
  ELSE IF next = Null THEN current
  ELSE Some(MathMin(Val(current), Val(next)))

-----------------------------------------------------------------------------
(* Gemini CLI: static configuration.  GEMINI_CLI_GROUP_LOOKUP (./constants)*)
(* and isIgnoredGeminiCliModel (./validators) are imported by format.ts;   *)
(* their bodies follow the specification's sections 3, 4.3 and 4.4: a      *)
(* lookup from model id to {id, label, preferredModelId?} and an exact,    *)
(* case-sensitive membership test against a fixed ignore set.              *)

GeminiProPreferred == "gemini-3-pro-preview"
GeminiProSibling == "gemini-2.5-pro"
GeminiFlash == "gemini-2.5-flash"
GeminiIgnored == "gemini-2.0-flash"
GeminiIgnoredUpper == "Gemini-2.0-Flash"

GEMINI_CLI_IGNORED_MODELS == {GeminiIgnored}

isIgnoredGeminiCliModel(modelId) == modelId \in GEMINI_CLI_IGNORED_MODELS

GEMINI_CLI_GROUP_LOOKUP(modelId) ==
  CASE modelId \in {GeminiProPreferred, GeminiProSibling} ->
         Some([id |-> "gemini-pro-series", label |-> "Gemini Pro Series",
               preferredModelId |-> Some(GeminiProPreferred)])
    [] modelId = GeminiFlash ->
         Some([id |-> "gemini-flash-series", label |-> "Gemini Flash Series",
               preferredModelId |-> Undefined])
    [] OTHER -> Undefined

-----------------------------------------------------------------------------
(* buildGeminiCliQuotaBuckets, src/src/utils/format.ts *)

\* group?.id ?? bucket.modelId
GeminiGroupIdOf(bucket) ==
  LET group == GEMINI_CLI_GROUP_LOOKUP(bucket.modelId)
  IN  IF group = Undefined THEN bucket.modelId ELSE Val(group).id

\* group?.label ?? bucket.modelId
GeminiLabelOf(bucket) ==
  LET group == GEMINI_CLI_GROUP_LOOKUP(bucket.modelId)
  IN  IF group = Undefined THEN bucket.modelId ELSE Val(group).label

\* bucket.tokenType ?? ''
GeminiTokenKey(bucket) ==
  IF bucket.tokenType = Null THEN "" ELSE Val(bucket.tokenType)

\* Mutant: the key without the token type.
GeminiMapKeyByGroupOnly(bucket) == GeminiGroupIdOf(bucket) \o "::"

\* `${groupId}::${tokenKey}`
GeminiMapKey(bucket) == GeminiGroupIdOf(bucket) \o "::" \o GeminiTokenKey(bucket)

\* `${groupId}${tokenKey ? `-${tokenKey}` : ''}`
GeminiStateId(bucket) ==
  GeminiGroupIdOf(bucket)
    \o (IF GeminiTokenKey(bucket) # "" THEN "-" \o GeminiTokenKey(bucket) ELSE "")

\* group?.preferredModelId
GeminiPreferredModelIdOf(bucket) ==
  LET group == GEMINI_CLI_GROUP_LOOKUP(bucket.modelId)
  IN  IF group = Undefined THEN Undefined ELSE Val(group).preferredModelId

\* preferredModelId && bucket.modelId === preferredModelId
GeminiIsPreferred(preferredModelId, bucket) ==
  /\ ~Falsy(preferredModelId)
  /\ bucket.modelId = Val(preferredModelId)

\* Mutant: a missing fraction of the first bucket starts the fold at zero.
GeminiNewGroupZeroFraction(bucket) ==
  LET preferredModelId == GeminiPreferredModelIdOf(bucket)
  IN  [mapKey |-> GeminiMapKey(bucket),
       id |-> GeminiStateId(bucket),
       label |-> GeminiLabelOf(bucket),
       tokenType |-> bucket.tokenType,
       modelIds |-> <<bucket.modelId>>,
       preferredModelId |-> preferredModelId,
       preferredBucket |->
         IF GeminiIsPreferred(preferredModelId, bucket) THEN Some(bucket) ELSE Undefined,
       fallbackRemainingFraction |->
         IF bucket.remainingFraction = Null THEN Some(0) ELSE bucket.remainingFraction,
       fallbackRemainingAmount |-> bucket.remainingAmount,
       fallbackResetTime |-> bucket.resetTime]

\* The `if (!existing)` branch: grouped.set(mapKey, {...}).
GeminiNewGroup(bucket) ==
  LET preferredModelId == GeminiPreferredModelIdOf(bucket)
  IN  [mapKey |-> GeminiMapKey(bucket),
       id |-> GeminiStateId(bucket),
       label |-> GeminiLabelOf(bucket),
       tokenType |-> bucket.tokenType,
       modelIds |-> <<bucket.modelId>>,
       preferredModelId |-> preferredModelId,
       preferredBucket |->
         IF GeminiIsPreferred(preferredModelId, bucket) THEN Some(bucket) ELSE Undefined,
       fallbackRemainingFraction |-> bucket.remainingFraction,
       fallbackRemainingAmount |-> bucket.remainingAmount,
       fallbackResetTime |-> bucket.resetTime]

\* Mutant: the preferred bucket is looked for when the group is created only.
GeminiMergeBucketKeepPreferred(existing, bucket) ==
  [existing EXCEPT
     !.fallbackRemainingFraction =
        minNullableNumber(existing.fallbackRemainingFraction, bucket.remainingFraction),
     !.fallbackRemainingAmount =
        minNullableNumber(existing.fallbackRemainingAmount, bucket.remainingAmount),
     !.fallbackResetTime = pickEarlierResetTime(existing.fallbackResetTime, bucket.resetTime),
     !.modelIds = Append(existing.modelIds, bucket.modelId)]

\* The fold of a further bucket into the existing group of its key.
GeminiMergeBucket(existing, bucket) ==
  [existing EXCEPT
     !.fallbackRemainingFraction =
        minNullableNumber(existing.fallbackRemainingFraction, bucket.remainingFraction),
     !.fallbackRemainingAmount =
        minNullableNumber(existing.fallbackRemainingAmount, bucket.remainingAmount),
     !.fallbackResetTime = pickEarlierResetTime(existing.fallbackResetTime, bucket.resetTime),
     !.modelIds = Append(existing.modelIds, bucket.modelId),
     !.preferredBucket =
        IF GeminiIsPreferred(existing.preferredModelId, bucket)
        THEN Some(bucket) ELSE existing.preferredBucket]

\* grouped.get(mapKey): the position of the key's entry in the Map, 0 when absent.
\* The Map is the sequence of its values in insertion order.
GeminiMapIndex(grouped, mapKey) ==
  IF \E i \in 1..Len(grouped) : grouped[i].mapKey = mapKey
  THEN CHOOSE i \in 1..Len(grouped) : grouped[i].mapKey = mapKey
  ELSE 0

\* One call of the forEach callback.
GeminiForEachBucket(grouped, bucket) ==
  IF isIgnoredGeminiCliModel(bucket.modelId) THEN grouped
  ELSE LET i == GeminiMapIndex(grouped, GeminiMapKey(bucket))
       IN  IF i = 0 THEN Append(grouped, GeminiNewGroup(bucket))
           ELSE [grouped EXCEPT ![i] = GeminiMergeBucket(grouped[i], bucket)]

\* buckets.forEach(...) over the first n buckets.
RECURSIVE GeminiGrouped(_, _)
GeminiGrouped(bs, n) ==
  IF n = 0 THEN <<>>
  ELSE GeminiForEachBucket(GeminiGrouped(bs, n - 1), bs[n])

\* Mutant: the ids as pushed, without the Set.
AllInOrder(ids) == ids

\* Array.from(new Set(modelIds)): first occurrences, in order.
RECURSIVE UniqueInOrder(_)
UniqueInOrder(ids) ==
  IF ids = <<>> THEN <<>>
  ELSE LET front == UniqueInOrder(SubSeq(ids, 1, Len(ids) - 1))
           last == ids[Len(ids)]
       IN  IF \E i \in 1..Len(front) : front[i] = last THEN front
           ELSE Append(front, last)

\* Mutant: the amount taken for the fraction.
GeminiEmitStateAmountAsFraction(bucket) ==
  LET preferred == bucket.preferredBucket
  IN  [id |-> bucket.id,
       label |-> bucket.label,
       remainingFraction |->
         IF preferred # Undefined THEN Val(preferred).remainingAmount
         ELSE bucket.fallbackRemainingAmount,
       remainingAmount |->
         IF preferred # Undefined THEN Val(preferred).remainingAmount
         ELSE bucket.fallbackRemainingAmount,
       resetTime |->
         IF preferred # Undefined THEN Val(preferred).resetTime
         ELSE bucket.fallbackResetTime,
       tokenType |-> bucket.tokenType,
       modelIds |-> UniqueInOrder(bucket.modelIds)]

\* The callback of Array.from(grouped.values()).map(...).
GeminiEmitState(bucket) ==
  LET preferred == bucket.preferredBucket
  IN  [id |-> bucket.id,
       label |-> bucket.label,
       remainingFraction |->
         IF preferred # Undefined THEN Val(preferred).remainingFraction
         ELSE bucket.fallbackRemainingFraction,
       remainingAmount |->
         IF preferred # Undefined THEN Val(preferred).remainingAmount
         ELSE bucket.fallbackRemainingAmount,
       resetTime |->
         IF preferred # Undefined THEN Val(preferred).resetTime
         ELSE bucket.fallbackResetTime,
       tokenType |-> bucket.tokenType,
       modelIds |-> UniqueInOrder(bucket.modelIds)]

buildGeminiCliQuotaBuckets(bs) ==
  IF Len(bs) = 0 THEN <<>>
  ELSE LET grouped == GeminiGrouped(bs, Len(bs))
       IN  [i \in 1..Len(grouped) |-> GeminiEmitState(grouped[i])]

-----------------------------------------------------------------------------
(* Antigravity: raw payload values.  A raw JSON value is tagged with its   *)
(* typeof: [t |-> "number", n |-> n] or [t |-> "string", s |-> s].         *)

Num(n) == [t |-> "number", n |-> n]
Str(s) == [t |-> "string", s |-> s]

\* a ?? b
Coalesce(a, b) == IF a = Undefined THEN b ELSE a

\* normalizeQuotaFraction (./parsers), after the specification's section 4.1:
\* null for a missing or non-numeric value, otherwise the number clamped to [0,1].
normalizeQuotaFraction(value) ==
  IF value = Undefined THEN Null
  ELSE IF Val(value).t # "number" THEN Null
  ELSE IF Val(value).n < 0 THEN Some(0)
  ELSE IF Val(value).n > Scale THEN Some(Scale)
  ELSE Some(Val(value).n)

\* The object literal {} of `entry.quotaInfo ?? entry.quota_info ?? {}`.
EmptyQuotaInfo ==
  [remainingFraction |-> Undefined, remaining_fraction |-> Undefined,
   remaining |-> Undefined, resetTime |-> Undefined, reset_time |-> Undefined]

getAntigravityQuotaInfo(entry) ==
  IF entry = Undefined
  THEN [remainingFraction |-> Null, resetTime |-> Undefined, displayName |-> Undefined]
  ELSE LET quotaInfo ==
             Val(Coalesce(Val(entry).quotaInfo,
                          Coalesce(Val(entry).quota_info, Some(EmptyQuotaInfo))))
           remainingValue ==
             Coalesce(quotaInfo.remainingFraction,
                      Coalesce(quotaInfo.remaining_fraction, quotaInfo.remaining))
           resetValue == Coalesce(quotaInfo.resetTime, quotaInfo.reset_time)
       IN  [remainingFraction |-> normalizeQuotaFraction(remainingValue),
            resetTime |->
              IF resetValue # Undefined /\ Val(resetValue).t = "string"
              THEN Some(Val(resetValue).s) ELSE Undefined,
            displayName |->
              IF Val(entry).displayName # Undefined /\ Val(Val(entry).displayName).t = "string"
              THEN Some(Val(Val(entry).displayName).s) ELSE Undefined]

IGNORED_ANTIGRAVITY_MODELS ==
  {"tab_flash_lite_preview", "gpt-oss-120b-medium", "chat_20706", "chat_23310", "ulw"}

UpperLetters == "ABCDEFGHIJKLMNOPQRSTUVWXYZ"
LowerLetters == "abcdefghijklmnopqrstuvwxyz"

\* toLowerCase of a one-character string.
ToLowerChar(c) ==
  IF \E i \in 1..Len(UpperLetters) : SubSeq(UpperLetters, i, i) = c
  THEN LET i == CHOOSE i \in 1..Len(UpperLetters) : SubSeq(UpperLetters, i, i) = c
       IN  SubSeq(LowerLetters, i, i)
  ELSE c

RECURSIVE ToLowerCase(_)
ToLowerCase(s) ==
  IF Len(s) = 0 THEN ""
  ELSE ToLowerCase(SubSeq(s, 1, Len(s) - 1)) \o ToLowerChar(SubSeq(s, Len(s), Len(s)))

StartsWith(s, prefix) ==
  Len(s) >= Len(prefix) /\ SubSeq(s, 1, Len(prefix)) = prefix

\* Mutant: the ignore set matched without regard to letter case.
isIgnoredAnyCase(modelId) == ToLowerCase(modelId) \in IGNORED_ANTIGRAVITY_MODELS

\* IGNORED_ANTIGRAVITY_MODELS.has(modelId)
isIgnoredAntigravityModel(modelId) == modelId \in IGNORED_ANTIGRAVITY_MODELS

\* Mutant: the prefix compared without toLowerCase.
isClaudeModelCaseSensitive(modelId) == StartsWith(modelId, "claude")

isClaudeModel(modelId) == StartsWith(ToLowerCase(modelId), "claude")

\* Mutant: no default for an entry with a reset time only.
AntigravityRemainingFractionNoDefault(info) == info.remainingFraction

\* info.remainingFraction ?? (info.resetTime ? 0 : null)
AntigravityRemainingFraction(info) ==
  IF info.remainingFraction # Null THEN info.remainingFraction
  ELSE IF ~Falsy(info.resetTime) THEN Some(0) ELSE Null

\* if (remainingFraction === null) continue;
AntigravityDropped(remainingFraction) == remainingFraction = Null

\* Math.min on a `number` that might hold null: ToNumber(null) is 0.
ToNumber(n) == IF n = Null THEN 0 ELSE Val(n)

\* The first Claude entry: claudeGroup = {...}.
AntigravityNewClaudeGroup(modelId, remainingFraction, info) ==
  [id |-> "claude-merged", label |-> "Claude", models |-> <<modelId>>,
   remainingFraction |-> remainingFraction, resetTime |-> info.resetTime]

\* Mutant: a further Claude entry folded in without its id.
AntigravityMergeClaudeWithoutId(claudeGroup, modelId, remainingFraction, info) ==
  [claudeGroup EXCEPT
     !.remainingFraction =
        Some(MathMin(ToNumber(claudeGroup.remainingFraction), ToNumber(remainingFraction))),
     !.resetTime = pickEarlierResetTime(claudeGroup.resetTime, info.resetTime)]

\* A further Claude entry, folded into claudeGroup.
AntigravityMergeClaude(claudeGroup, modelId, remainingFraction, info) ==
  [claudeGroup EXCEPT
     !.models = Append(claudeGroup.models, modelId),
     !.remainingFraction =
        Some(MathMin(ToNumber(claudeGroup.remainingFraction), ToNumber(remainingFraction))),
     !.resetTime = pickEarlierResetTime(claudeGroup.resetTime, info.resetTime)]

\* groups.push({...}) for a model outside the Claude family.
AntigravityModelGroup(modelId, remainingFraction, info) ==
  [id |-> modelId,
   label |-> IF info.displayName # Undefined THEN Val(info.displayName) ELSE modelId,
   models |-> <<modelId>>,
   remainingFraction |-> remainingFraction, resetTime |-> info.resetTime]

\* One iteration of `for (const [modelId, entry] of Object.entries(models))`.
\* st.groups is the array, st.claudeGroup the optional merged group.
AntigravityForEntry(st, modelId, entry) ==
  IF isIgnoredAntigravityModel(modelId) THEN st
  ELSE LET info == getAntigravityQuotaInfo(entry)
           remainingFraction == AntigravityRemainingFraction(info)
       IN  IF AntigravityDropped(remainingFraction) THEN st
           ELSE IF isClaudeModel(modelId)
           THEN IF st.claudeGroup = Null
                THEN [st EXCEPT !.claudeGroup =
                        Some(AntigravityNewClaudeGroup(modelId, remainingFraction, info))]
                ELSE [st EXCEPT !.claudeGroup =
                        Some(AntigravityMergeClaude(Val(st.claudeGroup), modelId,
                                                    remainingFraction, info))]
           ELSE [st EXCEPT !.groups =
                   Append(st.groups, AntigravityModelGroup(modelId, remainingFraction, info))]

RECURSIVE AntigravityLoop(_, _)
AntigravityLoop(ms, n) ==
  IF n = 0 THEN [groups |-> <<>>, claudeGroup |-> Null]
  ELSE AntigravityForEntry(AntigravityLoop(ms, n - 1), ms[n].modelId, ms[n].entry)

\* Mutant: push instead of unshift.
AntigravityFinishPush(st) ==
  IF st.claudeGroup # Null THEN Append(st.groups, Val(st.claudeGroup)) ELSE st.groups

\* if (claudeGroup) groups.unshift(claudeGroup); return groups
AntigravityFinish(st) ==
  IF st.claudeGroup # Null THEN <<Val(st.claudeGroup)>> \o st.groups ELSE st.groups

buildAntigravityQuotaGroups(ms) == AntigravityFinish(AntigravityLoop(ms, Len(ms)))

\* The earlier buildAntigravityQuotaGroups of src/src/utils/format.ts: no ignore
\* set and no family merge, one group per entry that is not dropped.
RECURSIVE buildAntigravityQuotaGroupsFlat(_, _)
buildAntigravityQuotaGroupsFlat(ms, n) ==
  IF n = 0 THEN <<>>
  ELSE LET before == buildAntigravityQuotaGroupsFlat(ms, n - 1)
           info == getAntigravityQuotaInfo(ms[n].entry)
           remainingFraction == AntigravityRemainingFraction(info)
       IN  IF AntigravityDropped(remainingFraction) THEN before
           ELSE Append(before, AntigravityModelGroup(ms[n].modelId, remainingFraction, info))

\* Reading a property of undefined or null raises a TypeError.
PropertyAccessRaises(object) == object = Undefined

\* Mutant: no `if (!entry)` guard before entry.quotaInfo.
getAntigravityQuotaInfoRaisesUnguarded(entry) == PropertyAccessRaises(entry)

\* Whether getAntigravityQuotaInfo(entry) raises: entry.quotaInfo is read behind the
\* guard `if (!entry)`, the fields of quotaInfo behind the default `?? {}`.
getAntigravityQuotaInfoRaises(entry) ==
  IF entry = Undefined THEN FALSE
  ELSE PropertyAccessRaises(entry)
         \/ PropertyAccessRaises(Coalesce(Val(entry).quotaInfo,
                                          Coalesce(Val(entry).quota_info,
                                                   Some(EmptyQuotaInfo))))

\* Whether the loop of buildAntigravityQuotaGroups raises: the entries behind the
\* ignore set are not read.
buildAntigravityQuotaGroupsRaises(ms) ==
  \E n \in 1..Len(ms) :
    /\ ~isIgnoredAntigravityModel(ms[n].modelId)
    /\ getAntigravityQuotaInfoRaises(ms[n].entry)

buildAntigravityQuotaGroupsFlatRaises(ms) ==
  \E n \in 1..Len(ms) : getAntigravityQuotaInfoRaises(ms[n].entry)

-----------------------------------------------------------------------------
(* Inputs *)

\* Longest bucket sequence and largest payload drawn.
MaxBuckets == 3
MaxModels == 3

ResetEarly == "2025-01-01T00:00:00Z"
ResetEarlyMillis == "2025-01-01T00:00:00.000Z"
ResetLate == "2025-01-02T00:00:00Z"
ResetUnparsable == "not-a-date"

\* The preferred model of a group and a sibling, the model of a group without
\* preferred model, the ignored model, and a model without group definition whose
\* id differs from the ignored one in letter case only.
GeminiModelIds ==
  {GeminiProPreferred, GeminiProSibling, GeminiFlash, GeminiIgnored, GeminiIgnoredUpper}

GeminiTokenTypes == {Null, Some("input")}

\* <<remainingFraction, remainingAmount, resetTime>> of a parsed bucket.
GeminiBucketValues ==
  { <<Null, Null, Undefined>>,
    <<Some(30), Some(900), Some(ResetLate)>>,
    <<Some(80), Some(500), Some(ResetEarly)>>,
    <<Null, Some(500), Some(ResetUnparsable)>>,
    <<Some(80), Null, Some(ResetEarlyMillis)>>,
    <<Some(Scale), Some(900), Some("")>> }

GeminiParsedBuckets ==
  { [modelId |-> m, tokenType |-> tt, remainingFraction |-> v[1],
     remainingAmount |-> v[2], resetTime |-> v[3]] :
      m \in GeminiModelIds, tt \in GeminiTokenTypes, v \in GeminiBucketValues }

QuotaInfoOf(fraction, reset) ==
  [EmptyQuotaInfo EXCEPT !.remainingFraction = fraction, !.resetTime = reset]

LegacyQuotaInfoOf(fraction, reset) ==
  [EmptyQuotaInfo EXCEPT !.remaining_fraction = fraction, !.reset_time = reset]

EntryOf(structured, legacy, name) ==
  Some([quotaInfo |-> structured, quota_info |-> legacy, displayName |-> name])

AntigravityEntries ==
  { Undefined,
    EntryOf(Undefined, Undefined, Undefined),
    EntryOf(Some(QuotaInfoOf(Some(Num(50)), Some(Str(ResetLate)))), Undefined,
            Some(Str("Model A"))),
    EntryOf(Some(QuotaInfoOf(Some(Num(20)), Undefined)), Undefined, Undefined),
    EntryOf(Undefined, Some(LegacyQuotaInfoOf(Some(Num(80)), Some(Str(ResetEarly)))),
            Undefined),
    EntryOf(Some(QuotaInfoOf(Undefined, Some(Str(ResetEarly)))), Undefined, Undefined),
    EntryOf(Some(QuotaInfoOf(Some(Num(150)), Some(Str(ResetUnparsable)))), Undefined,
            Undefined),
    EntryOf(Some(QuotaInfoOf(Some(Str("n/a")), Some(Num(1735689600)))), Undefined,
            Some(Num(7))),
    EntryOf(Some(QuotaInfoOf(Some(Num(50)), Undefined)),
            Some(LegacyQuotaInfoOf(Some(Num(80)), Some(Str(ResetEarly)))), Undefined) }

\* Two members of the Claude family (one capitalised), the ignored "ulw", and two
\* ids that are neither: "ULW" differs from the ignored id in case only, and
\* "ulw-claude" has the ignored id as a prefix and "claude" not as a prefix.
AntigravityModelIds == {"claude-opus", "Claude-Sonnet", "ulw", "ULW", "ulw-claude"}

\* Object.entries(models) of a payload with the keys ids[1..k], each once, and
\* the entries es[1..k].
EntriesOf(k, ids, es) == [i \in 1..k |-> [modelId |-> ids[i], entry |-> es[i]]]

Injective(k, ids) == \A i, j \in 1..k : i # j => ids[i] # ids[j]

-----------------------------------------------------------------------------
(* The state machine: one call of a builder on a freshly parsed payload.   *)

InitGemini ==
  /\ call = "buildGeminiCliQuotaBuckets"
  /\ \E k \in 0..MaxBuckets : buckets \in [1..k -> GeminiParsedBuckets]
  /\ models = <<>>
  /\ bucketStates = <<>>
  /\ groups = <<>>
  /\ pc = "called"
  /\ args = <<>>
  /\ result = <<>>
  /\ heap = <<>>
  /\ NoTraeSection

InitAntigravity ==
  /\ call \in {"buildAntigravityQuotaGroups", "buildAntigravityQuotaGroupsFlat"}
  /\ buckets = <<>>
  /\ \E k \in 0..MaxModels :
       \E ids \in [1..k -> AntigravityModelIds] :
         /\ Injective(k, ids)
         /\ \E es \in [1..k -> AntigravityEntries] : models = EntriesOf(k, ids, es)
  /\ bucketStates = <<>>
  /\ groups = <<>>
  /\ pc = "called"
  /\ args = <<>>
  /\ result = <<>>
  /\ heap = <<>>
  /\ NoTraeSection

Init == InitGemini \/ InitAntigravity

GeminiCall ==
  /\ pc = "called"
  /\ call = "buildGeminiCliQuotaBuckets"
  /\ bucketStates' = buildGeminiCliQuotaBuckets(buckets)
  /\ pc' = "returned"
  /\ UNCHANGED <<call, buckets, models, groups, args, result, heap, traeVars>>

AntigravityCall ==
  /\ pc = "called"
  /\ call = "buildAntigravityQuotaGroups"
  /\ IF buildAntigravityQuotaGroupsRaises(models)
     THEN groups' = groups /\ pc' = "raised"
     ELSE groups' = buildAntigravityQuotaGroups(models) /\ pc' = "returned"
  /\ UNCHANGED <<call, buckets, models, bucketStates, args, result, heap, traeVars>>

AntigravityFlatCall ==
  /\ pc = "called"
  /\ call = "buildAntigravityQuotaGroupsFlat"
  /\ IF buildAntigravityQuotaGroupsFlatRaises(models)
     THEN groups' = groups /\ pc' = "raised"
     ELSE groups' = buildAntigravityQuotaGroupsFlat(models, Len(models)) /\ pc' = "returned"
  /\ UNCHANGED <<call, buckets, models, bucketStates, args, result, heap, traeVars>>

Next == GeminiCall \/ AntigravityCall \/ AntigravityFlatCall

\* Every builder, one call per behaviour.
Spec == Init /\ [][Next]_vars

\* buildGeminiCliQuotaBuckets alone.
SpecGemini == InitGemini /\ [][GeminiCall]_vars

\* buildAntigravityQuotaGroups alone, in its two versions.
NextAntigravity == AntigravityCall \/ AntigravityFlatCall

SpecAntigravity == InitAntigravity /\ [][NextAntigravity]_vars

-----------------------------------------------------------------------------
(* Properties of buildGeminiCliQuotaBuckets.  The definitions below state  *)
(* what is expected of the result from the input alone.                    *)

GeminiReturned == pc = "returned" /\ call = "buildGeminiCliQuotaBuckets"

\* The input positions of the buckets that are not ignored.
KeptIdx == { i \in 1..Len(buckets) : buckets[i].modelId \notin GEMINI_CLI_IGNORED_MODELS }

\* A token type, an absent one counted as the empty string.
TokenKeyOf(tokenType) == IF tokenType = Null THEN "" ELSE Val(tokenType)

\* The composite key: the resolved group id and the token type.
CompositeKey(b) ==
  << IF GEMINI_CLI_GROUP_LOOKUP(b.modelId) = Undefined THEN b.modelId
     ELSE Val(GEMINI_CLI_GROUP_LOOKUP(b.modelId)).id,
     TokenKeyOf(b.tokenType) >>

\* The positions at which a composite key occurs for the first time.
FirstIdx ==
  { i \in KeptIdx :
      \A j \in KeptIdx : j < i => CompositeKey(buckets[j]) # CompositeKey(buckets[i]) }

\* The input position of the first bucket of the k-th key seen.
KeyIdx(k) == CHOOSE i \in FirstIdx : Cardinality({ j \in FirstIdx : j <= i }) = k

\* The positions of the buckets of the k-th key, and those of its preferred model.
Members(k) ==
  LET key == CompositeKey(buckets[KeyIdx(k)])
  IN  { i \in KeptIdx : CompositeKey(buckets[i]) = key }

ConfiguredPreferred(k) ==
  LET group == GEMINI_CLI_GROUP_LOOKUP(buckets[KeyIdx(k)].modelId)
  IN  IF group = Undefined THEN Undefined ELSE Val(group).preferredModelId

PreferredMembers(k) ==
  LET preferredModelId == ConfiguredPreferred(k)
  IN  IF preferredModelId = Undefined THEN {}
      ELSE { i \in Members(k) : buckets[i].modelId = Val(preferredModelId) }

OneStatePerKey == Len(bucketStates) = Cardinality(FirstIdx)

RawValues(b) == <<b.remainingFraction, b.remainingAmount, b.resetTime>>

MaxOf(S) == CHOOSE m \in S : \A x \in S : x <= m
MinOf(S) == CHOOSE m \in S : \A x \in S : m <= x

\* The least of the non-null values of a set of optional numbers, null when none.
MinOfPresent(S) ==
  LET present == { Val(o) : o \in S \ {Null} }
  IN  IF present = {} THEN Null ELSE Some(MinOf(present))

\* C1, as stated: a group that holds a bucket of its preferred model reports exactly
\* that bucket's raw fraction, amount and reset time, for every such bucket of the
\* group, wherever it sits and whatever the other buckets of the group report.
C1_PreferredBucketVerbatim ==
  GeminiReturned =>
    /\ OneStatePerKey
    /\ \A k \in 1..Len(bucketStates) :
         \A i \in PreferredMembers(k) : RawValues(bucketStates[k]) = RawValues(buckets[i])

\* C1, amended: a group that holds buckets of its preferred model reports exactly the
\* raw fraction, amount and reset time of the last of them in the sequence (of the
\* only one, when there is one), whatever the other buckets of the group report.
C1_LastPreferredBucketVerbatim ==
  GeminiReturned =>
    /\ OneStatePerKey
    /\ \A k \in 1..Len(bucketStates) :
         PreferredMembers(k) # {} =>
           RawValues(bucketStates[k]) = RawValues(buckets[MaxOf(PreferredMembers(k))])

\* C1's case: the preferred bucket in the middle of three buckets of one group, with
\* all fields null, between siblings that report values; the group reports nulls.
C1_Witness ==
  /\ GeminiReturned
  /\ Len(buckets) = 3
  /\ Len(bucketStates) = 1
  /\ PreferredMembers(1) = {2}
  /\ Members(1) = {1, 2, 3}
  /\ RawValues(buckets[2]) = <<Null, Null, Undefined>>
  /\ buckets[1].remainingFraction = Some(30)
  /\ buckets[3].remainingFraction = Some(80)
  /\ RawValues(bucketStates[1]) = <<Null, Null, Undefined>>

\* C2: without a bucket of the preferred model, the group's fraction is the least
\* non-null fraction of its buckets and its amount the least non-null amount, each
\* null when all are null, each taken on its own.
C2_FallbackIndependentMinima ==
  GeminiReturned =>
    /\ OneStatePerKey
    /\ \A k \in 1..Len(bucketStates) :
         PreferredMembers(k) = {} =>
           /\ bucketStates[k].remainingFraction =
                MinOfPresent({ buckets[i].remainingFraction : i \in Members(k) })
           /\ bucketStates[k].remainingAmount =
                MinOfPresent({ buckets[i].remainingAmount : i \in Members(k) })

\* C2's case: a group without preferred bucket whose least fraction and least amount
\* come from different buckets, and a third bucket that reports null for the fraction.
C2_Witness ==
  /\ GeminiReturned
  /\ Len(bucketStates) = 1
  /\ Members(1) = {1, 2, 3}
  /\ PreferredMembers(1) = {}
  /\ buckets[1].remainingFraction = Some(30) /\ buckets[1].remainingAmount = Some(900)
  /\ buckets[2].remainingFraction = Null /\ buckets[2].remainingAmount = Some(500)
  /\ buckets[3].remainingFraction = Some(80) /\ buckets[3].remainingAmount = Some(500)
  /\ bucketStates[1].remainingFraction = Some(30)
  /\ bucketStates[1].remainingAmount = Some(500)

\* A timestamp that is present and parses, and the instant it denotes.
Parsable(t) == ~Falsy(t) /\ DateGetTime(Val(t)) # NaN
Instant(t) == Val(DateGetTime(Val(t)))

\* The buckets of the k-th key whose reset time is present, and those whose parses.
PresentMembers(k) == { i \in Members(k) : ~Falsy(buckets[i].resetTime) }
ParsableMembers(k) == { i \in Members(k) : Parsable(buckets[i].resetTime) }

\* The group's reset time is a parsable member timestamp no later than any other.
EarliestParsable(k) ==
  /\ Parsable(bucketStates[k].resetTime)
  /\ \E i \in ParsableMembers(k) : bucketStates[k].resetTime = buckets[i].resetTime
  /\ \A i \in ParsableMembers(k) :
       Instant(bucketStates[k].resetTime) <= Instant(buckets[i].resetTime)

\* C3, as stated: without a bucket of the preferred model, the group's reset time is
\* the earliest of its buckets' reset times, a missing or unparsable one counting as
\* absent: with no parsable member timestamp the group has no reset time.
C3_EarliestResetUnparsableAbsent ==
  GeminiReturned =>
    /\ OneStatePerKey
    /\ \A k \in 1..Len(bucketStates) :
         PreferredMembers(k) = {} =>
           IF ParsableMembers(k) # {} THEN EarliestParsable(k)
           ELSE Falsy(bucketStates[k].resetTime)

\* C3, amended: without a bucket of the preferred model, the group's reset time is
\* the earliest parsable reset time of its buckets whenever one of them parses, in
\* every order of the buckets; when none parses it is the last present (unparsable)
\* member timestamp, and absent only when every member's is missing.
C3_EarliestParsableReset ==
  GeminiReturned =>
    /\ OneStatePerKey
    /\ \A k \in 1..Len(bucketStates) :
         PreferredMembers(k) = {} =>
           IF ParsableMembers(k) # {} THEN EarliestParsable(k)
           ELSE IF PresentMembers(k) # {}
                THEN bucketStates[k].resetTime = buckets[MaxOf(PresentMembers(k))].resetTime
                ELSE Falsy(bucketStates[k].resetTime)

\* C3's case: three buckets of one group without preferred bucket, an unparsable
\* reset time first, then the later and then the earlier one; the earlier one wins.
C3_Witness ==
  /\ GeminiReturned
  /\ Len(bucketStates) = 1
  /\ Members(1) = {1, 2, 3}
  /\ PreferredMembers(1) = {}
  /\ buckets[1].resetTime = Some(ResetUnparsable)
  /\ buckets[2].resetTime = Some(ResetLate)
  /\ buckets[3].resetTime = Some(ResetEarly)
  /\ bucketStates[1].resetTime = Some(ResetEarly)

SeqToSet(q) == { q[i] : i \in 1..Len(q) }

\* The position in the input of the first bucket of the k-th key with model id m.
FirstOccurrence(k, m) == MinOf({ i \in Members(k) : buckets[i].modelId = m })

\* C8: every group's modelIds is non-empty, free of duplicates, in order of first
\* occurrence, and holds exactly the model ids of the non-ignored buckets of the
\* group's key; every non-ignored bucket's model id is in exactly one group of its
\* token type.
C8_ModelIdsDeduplicated ==
  GeminiReturned =>
    /\ OneStatePerKey
    /\ \A k \in 1..Len(bucketStates) :
         LET ids == bucketStates[k].modelIds
         IN  /\ Len(ids) > 0
             /\ \A p, q \in 1..Len(ids) : p # q => ids[p] # ids[q]
             /\ SeqToSet(ids) = { buckets[i].modelId : i \in Members(k) }
             /\ \A p, q \in 1..Len(ids) :
                  p < q => FirstOccurrence(k, ids[p]) < FirstOccurrence(k, ids[q])
    /\ \A i \in KeptIdx :
         Cardinality({ k \in 1..Len(bucketStates) :
                         /\ buckets[i].modelId \in SeqToSet(bucketStates[k].modelIds)
                         /\ TokenKeyOf(bucketStates[k].tokenType)
                              = TokenKeyOf(buckets[i].tokenType) }) = 1

\* C8's case: sibling, preferred, sibling again in one group: two ids, in that order.
C8_Witness ==
  /\ GeminiReturned
  /\ Len(buckets) = 3
  /\ Len(bucketStates) = 1
  /\ buckets[1].modelId = GeminiProSibling
  /\ buckets[2].modelId = GeminiProPreferred
  /\ buckets[3].modelId = GeminiProSibling
  /\ bucketStates[1].modelIds = <<GeminiProSibling, GeminiProPreferred>>

\* The id expected of the group of a bucket: the group id, then "-" and the token
\* type when there is one.
ExpectedStateId(b) ==
  CompositeKey(b)[1] \o (IF CompositeKey(b)[2] = "" THEN "" ELSE "-" \o CompositeKey(b)[2])

\* C9: one group per distinct (group id, token type) pair among the non-ignored
\* buckets, in the order in which the pairs are first seen, each holding the buckets
\* of its pair only; so buckets that differ in token type are never merged, and an
\* empty or all-ignored input yields an empty result.
C9_OneGroupPerKeyInOrder ==
  GeminiReturned =>
    /\ OneStatePerKey
    /\ KeptIdx = {} => bucketStates = <<>>
    /\ \A k \in 1..Len(bucketStates) :
         /\ bucketStates[k].id = ExpectedStateId(buckets[KeyIdx(k)])
         /\ bucketStates[k].tokenType = buckets[KeyIdx(k)].tokenType
         /\ SeqToSet(bucketStates[k].modelIds) = { buckets[i].modelId : i \in Members(k) }

\* C9's case: the same group under two token types around an ignored bucket: two
\* groups, in the order seen, then a further bucket joining the first of them.
C9_Witness ==
  /\ GeminiReturned
  /\ Len(buckets) = 3
  /\ buckets[1].modelId = GeminiProSibling /\ buckets[1].tokenType = Some("input")
  /\ buckets[2].modelId = GeminiProSibling /\ buckets[2].tokenType = Null
  /\ buckets[3].modelId = GeminiProPreferred /\ buckets[3].tokenType = Some("input")
  /\ Len(bucketStates) = 2
  /\ bucketStates[1].id = "gemini-pro-series-input"
  /\ bucketStates[2].id = "gemini-pro-series"
  /\ bucketStates[1].modelIds = <<GeminiProSibling, GeminiProPreferred>>

-----------------------------------------------------------------------------
(* Properties of buildAntigravityQuotaGroups. *)

AntigravityReturned == pc = "returned" /\ call = "buildAntigravityQuotaGroups"
AntigravityFlatReturned == pc = "returned" /\ call = "buildAntigravityQuotaGroupsFlat"

\* What entry i reports: its normalized fraction and its reset time.
InfoAt(i) == getAntigravityQuotaInfo(models[i].entry)

\* The fraction entry i counts with: its normalized fraction, 0 when that is null
\* and a reset time is present, null (the entry is dropped) when both are absent.
EffectiveFraction(i) ==
  LET info == InfoAt(i)
  IN  IF info.remainingFraction # Null THEN info.remainingFraction
      ELSE IF ~Falsy(info.resetTime) THEN Some(0)
      ELSE Null

IgnoredIdx == { i \in 1..Len(models) : models[i].modelId \in IGNORED_ANTIGRAVITY_MODELS }
SurvivingIdx ==
  { i \in 1..Len(models) :
      models[i].modelId \notin IGNORED_ANTIGRAVITY_MODELS /\ EffectiveFraction(i) # Null }

\* The Claude family: the id starts with "claude", letter case aside.
ClaudeFamily(modelId) == StartsWith(ToLowerCase(modelId), "claude")
ClaudeIdx == { i \in SurvivingIdx : ClaudeFamily(models[i].modelId) }
OtherIdx == { i \in SurvivingIdx : ~ClaudeFamily(models[i].modelId) }

\* The k-th position of a set of positions, and the model ids at the positions of
\* the set, in payload order.
KthOf(S, k) == CHOOSE i \in S : Cardinality({ j \in S : j <= i }) = k
IdsAt(S) == LET T == S IN [k \in 1..Cardinality(T) |-> models[KthOf(T, k)].modelId]

MergedGroups == { k \in 1..Len(groups) : groups[k].id = "claude-merged" }

\* pickEarlierResetTime folded over the reset times at the first n positions of S.
RECURSIVE EarliestAt(_, _)
EarliestAt(S, n) ==
  IF n = 0 THEN Undefined
  ELSE pickEarlierResetTime(EarliestAt(S, n - 1), InfoAt(KthOf(S, n)).resetTime)

\* C4: the surviving entries of the Claude family never get a group of their own;
\* they make up exactly one group, id "claude-merged", label "Claude", with their ids
\* in payload order, the least of their effective fractions, and the earliest of
\* their reset times by pickEarlierResetTime (the earliest parsable one when one
\* parses); without such an entry there is no "claude-merged" group.
C4_ClaudeFamilyMerged ==
  AntigravityReturned =>
    LET claude == ClaudeIdx
        mergedAt == MergedGroups
    IN  /\ \A k \in 1..Len(groups) : \A i \in claude :
             groups[k].id # models[i].modelId
             /\ (k \notin mergedAt => models[i].modelId \notin SeqToSet(groups[k].models))
        /\ IF claude = {} THEN mergedAt = {}
           ELSE /\ Cardinality(mergedAt) = 1
                /\ LET merged == groups[CHOOSE k \in mergedAt : TRUE]
                       parsable == { i \in claude : Parsable(InfoAt(i).resetTime) }
                   IN  /\ merged.label = "Claude"
                       /\ merged.models = IdsAt(claude)
                       /\ merged.remainingFraction =
                            MinOfPresent({ EffectiveFraction(i) : i \in claude })
                       /\ merged.resetTime = EarliestAt(claude, Cardinality(claude))
                       /\ parsable # {} =>
                            /\ Parsable(merged.resetTime)
                            /\ \A i \in parsable :
                                 Instant(merged.resetTime) <= Instant(InfoAt(i).resetTime)

\* C4's case: a capitalised and a lower-case Claude id around another model, the
\* second with the smaller fraction and the earlier reset time.
C4_Witness ==
  /\ AntigravityReturned
  /\ Len(models) = 3
  /\ models[1].modelId = "Claude-Sonnet"
  /\ models[2].modelId = "ULW"
  /\ models[3].modelId = "claude-opus"
  /\ EffectiveFraction(1) = Some(50) /\ InfoAt(1).resetTime = Some(ResetLate)
  /\ EffectiveFraction(2) = Some(20)
  /\ EffectiveFraction(3) = Some(0) /\ InfoAt(3).resetTime = Some(ResetEarly)
  /\ Len(groups) = 2
  /\ groups[1] = [id |-> "claude-merged", label |-> "Claude",
                  models |-> <<"Claude-Sonnet", "claude-opus">>,
                  remainingFraction |-> Some(0), resetTime |-> Some(ResetEarly)]

\* C5: the "claude-merged" group, when there is one, is the first group; the other
\* groups follow in payload order, one per surviving model outside the family.
C5_MergedGroupFirst ==
  AntigravityReturned =>
    LET offset == IF ClaudeIdx = {} THEN 0 ELSE 1
        others == IdsAt(OtherIdx)
    IN  /\ Len(groups) = offset + Len(others)
        /\ offset = 1 => groups[1].id = "claude-merged"
        /\ \A k \in 1..Len(others) :
             /\ groups[offset + k].id = others[k]
             /\ groups[offset + k].models = <<others[k]>>

\* C5's case: the only Claude entry is the last of the payload, after two models
\* outside the family; its group comes first, the others in payload order.
C5_Witness ==
  /\ AntigravityReturned
  /\ Len(models) = 3
  /\ models[1].modelId = "ulw-claude"
  /\ models[2].modelId = "ULW"
  /\ models[3].modelId = "claude-opus"
  /\ SurvivingIdx = {1, 2, 3}
  /\ [k \in 1..Len(groups) |-> groups[k].id] = <<"claude-merged", "ulw-claude", "ULW">>

\* The groups that list model id m.
GroupsListing(m) == { k \in 1..Len(groups) : m \in SeqToSet(groups[k].models) }

\* What C6 asks of entry i: dropped when it has neither fraction nor reset time;
\* otherwise in exactly one group, which reports 0 when the entry has a reset time
\* and no fraction and the entry's normalized fraction otherwise (the merged group
\* of the Claude family reports the least of its members' fractions, so at most it).
DefaultRuleAt(i, mergesFamily) ==
  LET m == models[i].modelId
      fraction == InfoAt(i).remainingFraction
      expected == IF fraction = Null THEN Some(0) ELSE fraction
  IN  IF fraction = Null /\ Falsy(InfoAt(i).resetTime) THEN GroupsListing(m) = {}
      ELSE /\ Cardinality(GroupsListing(m)) = 1
           /\ LET g == groups[CHOOSE k \in GroupsListing(m) : TRUE]
              IN  /\ g.remainingFraction # Null
                  /\ IF mergesFamily /\ ClaudeFamily(m)
                     THEN Val(g.remainingFraction) <= Val(expected)
                          /\ (Val(expected) = 0 => g.remainingFraction = Some(0))
                     ELSE g.id = m /\ g.remainingFraction = expected

\* C6 as stated, for every payload entry, the entries with an ignored id included:
\* dropped when fraction and reset time are both absent, in a group with fraction 0
\* when only the fraction is absent, with its normalized fraction otherwise.
C6_EveryEntryDefaultedOrDropped ==
  /\ AntigravityReturned =>
       /\ \A i \in 1..Len(models) : DefaultRuleAt(i, TRUE)
       /\ \A k \in 1..Len(groups) : groups[k].remainingFraction # Null
  /\ AntigravityFlatReturned =>
       /\ \A i \in 1..Len(models) : DefaultRuleAt(i, FALSE)
       /\ \A k \in 1..Len(groups) : groups[k].remainingFraction # Null

\* C6: every payload entry the loop processes (every entry of the earlier version,
\* every entry whose id is not ignored of the family-merge version) is dropped when
\* its fraction and reset time are both absent, counts with fraction 0 when only its
\* fraction is absent, and with its normalized fraction otherwise; no group has a
\* null remainingFraction.
C6_ResetTimeDefaultsFractionToZero ==
  /\ AntigravityReturned =>
       /\ \A i \in (1..Len(models)) \ IgnoredIdx : DefaultRuleAt(i, TRUE)
       /\ \A k \in 1..Len(groups) : groups[k].remainingFraction # Null
  /\ AntigravityFlatReturned =>
       /\ \A i \in 1..Len(models) : DefaultRuleAt(i, FALSE)
       /\ \A k \in 1..Len(groups) : groups[k].remainingFraction # Null

\* C6's case: an entry with a reset time and no fraction, an entry with neither, and
\* an entry with a fraction, all outside the Claude family: two groups, 0 and 20.
C6_Witness ==
  /\ AntigravityReturned
  /\ Len(models) = 3
  /\ IgnoredIdx = {} /\ ClaudeIdx = {}
  /\ InfoAt(1).remainingFraction = Null /\ InfoAt(1).resetTime = Some(ResetEarly)
  /\ InfoAt(2).remainingFraction = Null /\ InfoAt(2).resetTime = Undefined
  /\ InfoAt(3).remainingFraction = Some(20)
  /\ Len(groups) = 2
  /\ groups[1].id = models[1].modelId /\ groups[1].remainingFraction = Some(0)
  /\ groups[2].id = models[3].modelId /\ groups[2].remainingFraction = Some(20)

-----------------------------------------------------------------------------
(* Properties of both builders. *)

InUnitRange(fraction) == fraction = Null \/ (0 <= Val(fraction) /\ Val(fraction) <= Scale)

\* C7: with raw fractions null or within [0,1], every group either builder emits,
\* on every path, has a remainingFraction that is null or within [0,1].
C7_FractionWithinUnitRange ==
  pc = "returned" =>
    /\ \A k \in 1..Len(bucketStates) : InUnitRange(bucketStates[k].remainingFraction)
    /\ \A k \in 1..Len(groups) : InUnitRange(groups[k].remainingFraction)

\* C7's case: the Claude merge over an entry that counts with the default 0, beside
\* a single-model group whose raw fraction 1.5 was clamped to 1.
C7_Witness ==
  /\ AntigravityReturned
  /\ Len(groups) = 2
  /\ groups[1].id = "claude-merged" /\ groups[1].remainingFraction = Some(0)
  /\ Cardinality(ClaudeIdx) = 2
  /\ \E i \in ClaudeIdx : InfoAt(i).remainingFraction = Null
  /\ groups[2].remainingFraction = Some(Scale)
  /\ \E i \in OtherIdx :
       Val(models[i].entry).quotaInfo = Some(QuotaInfoOf(Some(Num(150)), Some(Str(ResetUnparsable))))

\* The input without the items whose model id is in the ignore set.
WithoutIgnoredBuckets ==
  SelectSeq(buckets, LAMBDA b : b.modelId \notin GEMINI_CLI_IGNORED_MODELS)
WithoutIgnoredModels ==
  SelectSeq(models, LAMBDA e : e.modelId \notin IGNORED_ANTIGRAVITY_MODELS)

\* C10: a model id that is an entry of the ignore set is in no group's model list and
\* changes nothing: the result is the result for the input without the ignored items.
\* An id that is no entry of the set, be it by letter case only or by a suffix, is
\* not ignored: its bucket, or its entry unless dropped, is in a group.
C10_IgnoredModelsExcluded ==
  /\ GeminiReturned =>
       /\ bucketStates = buildGeminiCliQuotaBuckets(WithoutIgnoredBuckets)
       /\ \A k \in 1..Len(bucketStates) :
            SeqToSet(bucketStates[k].modelIds) \cap GEMINI_CLI_IGNORED_MODELS = {}
       /\ \A i \in 1..Len(buckets) :
            buckets[i].modelId \notin GEMINI_CLI_IGNORED_MODELS =>
              \E k \in 1..Len(bucketStates) :
                buckets[i].modelId \in SeqToSet(bucketStates[k].modelIds)
  /\ AntigravityReturned =>
       /\ groups = buildAntigravityQuotaGroups(WithoutIgnoredModels)
       /\ \A k \in 1..Len(groups) :
            SeqToSet(groups[k].models) \cap IGNORED_ANTIGRAVITY_MODELS = {}
       /\ \A i \in 1..Len(models) :
            (models[i].modelId \notin IGNORED_ANTIGRAVITY_MODELS /\ EffectiveFraction(i) # Null)
              => GroupsListing(models[i].modelId) # {}

\* C10's case: the ignored "ulw" with a fraction lower than any other, between "ULW"
\* and "ulw-claude", which are not ignored: two groups, none of them for "ulw".
C10_Witness ==
  /\ AntigravityReturned
  /\ Len(models) = 3
  /\ models[1].modelId = "ULW"
  /\ models[2].modelId = "ulw"
  /\ models[3].modelId = "ulw-claude"
  /\ EffectiveFraction(1) = Some(50)
  /\ EffectiveFraction(2) = Some(0)
  /\ EffectiveFraction(3) = Some(20)
  /\ [k \in 1..Len(groups) |-> groups[k].id] = <<"ULW", "ulw-claude">>
  /\ groups[1].remainingFraction = Some(50)

-----------------------------------------------------------------------------
(* The two helpers of the builders, called on their own.                   *)

ResetUnparsableOther == "also-not-a-date"

\* Optional timestamp strings: missing, empty, parsable (two of them the same
\* instant in different spellings) and unparsable.
OptionalResetTimes ==
  { Undefined, Some(""), Some(ResetEarly), Some(ResetEarlyMillis), Some(ResetLate),
    Some(ResetUnparsable), Some(ResetUnparsableOther) }

\* number | null, zero included.
NullableNumbers == { Null, Some(0), Some(30), Some(80), Some(Scale) }

InitHelpers ==
  /\ \/ call = "pickEarlierResetTime" /\ args \in OptionalResetTimes \X OptionalResetTimes \X OptionalResetTimes
     \/ call = "minNullableNumber" /\ args \in NullableNumbers \X NullableNumbers \X NullableNumbers
  /\ buckets = <<>>
  /\ models = <<>>
  /\ bucketStates = <<>>
  /\ groups = <<>>
  /\ result = <<>>
  /\ heap = <<>>
  /\ NoTraeSection
  /\ pc = "called"

\* pickEarlierResetTime(a, b); the third value drawn is for folds over three.
pickEarlierResetTimeCall ==
  /\ pc = "called"
  /\ call = "pickEarlierResetTime"
  /\ result' = pickEarlierResetTime(args[1], args[2])
  /\ pc' = "returned"
  /\ UNCHANGED <<call, buckets, models, bucketStates, groups, args, heap, traeVars>>

minNullableNumberCall ==
  /\ pc = "called"
  /\ call = "minNullableNumber"
  /\ result' = minNullableNumber(args[1], args[2])
  /\ pc' = "returned"
  /\ UNCHANGED <<call, buckets, models, bucketStates, groups, args, heap, traeVars>>

NextHelpers == pickEarlierResetTimeCall \/ minNullableNumberCall

SpecHelpers == InitHelpers /\ [][NextHelpers]_vars

PickReturned == pc = "returned" /\ call = "pickEarlierResetTime"
MinReturned == pc = "returned" /\ call = "minNullableNumber"

\* A timestamp is missing when the code's test !s holds of it, present otherwise.
Missing(t) == Falsy(t)
Present(t) == ~Falsy(t)
Parses(t) == Present(t) /\ DateGetTime(Val(t)) # NaN
FailsToParse(t) == Present(t) /\ DateGetTime(Val(t)) = NaN

\* What C11 says of two present timestamps, and of exactly one present.
PickOfPresent(a, b, r) ==
  /\ (Present(a) /\ Missing(b)) => r = a
  /\ (Missing(a) /\ Present(b)) => r = b
  /\ (FailsToParse(a) /\ Parses(b)) => r = b
  /\ (Parses(a) /\ FailsToParse(b)) => r = a
  /\ (Parses(a) /\ Parses(b)) =>
       /\ Instant(a) < Instant(b) => r = a
       /\ Instant(b) < Instant(a) => r = b
       /\ Instant(a) = Instant(b) => r = a

\* C11 as stated: both missing gives undefined; exactly one present gives that one;
\* both present and exactly one unparsable gives the other; both parsable gives the
\* string of the earlier, the first argument when the instants are equal.
C11_PickEarlierByCases ==
  PickReturned =>
    /\ (Missing(args[1]) /\ Missing(args[2])) => result = Undefined
    /\ PickOfPresent(args[1], args[2], result)

\* C11: as above, but with both missing the result is the second argument, which is
\* missing too: undefined, or the empty string when the second argument is empty.
C11_PickEarlierByCasesSecondWhenMissing ==
  PickReturned =>
    /\ (Missing(args[1]) /\ Missing(args[2])) => (result = args[2] /\ Missing(result))
    /\ PickOfPresent(args[1], args[2], result)

\* C11's case: two spellings of one instant, the first argument returned as written.
C11_Witness ==
  /\ PickReturned
  /\ args[1] = Some(ResetEarlyMillis)
  /\ args[2] = Some(ResetEarly)
  /\ result = Some(ResetEarlyMillis)

SameInstant(a, b) == Parses(a) /\ Parses(b) /\ Instant(a) = Instant(b)

Fold3(a, b, c) == pickEarlierResetTime(pickEarlierResetTime(a, b), c)

\* C12 as stated: the two orders of the arguments select the same string unless the
\* two denote the same instant, and the fold over three values selects the same
\* string in each of the six orders.
C12_PickEarlierOrderIndependent ==
  PickReturned =>
    LET a == args[1]
        b == args[2]
        c == args[3]
    IN  /\ ~SameInstant(a, b) => result = pickEarlierResetTime(b, a)
        /\ \A r \in { Fold3(a, c, b), Fold3(b, a, c), Fold3(b, c, a),
                      Fold3(c, a, b), Fold3(c, b, a) } : r = Fold3(a, b, c)

\* C12, two unparsable strings only: the two orders of the arguments agree.
C12_TwoUnparsableCommute ==
  (PickReturned /\ FailsToParse(args[1]) /\ FailsToParse(args[2]))
    => result = pickEarlierResetTime(args[2], args[1])

\* C13: null is the identity of minNullableNumber, zero is a value like any other,
\* two numbers give their minimum; so the function is commutative and associative.
C13_MinNullableNullIsAbsence ==
  MinReturned =>
    LET a == args[1]
        b == args[2]
        c == args[3]
    IN  /\ a = Null => result = b
        /\ b = Null => result = a
        /\ (a # Null /\ b # Null) =>
             /\ result # Null
             /\ Val(result) \in {Val(a), Val(b)}
             /\ Val(result) <= Val(a) /\ Val(result) <= Val(b)
        /\ result = minNullableNumber(b, a)
        /\ minNullableNumber(result, c) = minNullableNumber(a, minNullableNumber(b, c))
        /\ minNullableNumber(Null, c) = c /\ minNullableNumber(c, Null) = c

\* C13's case: null against zero gives zero, not null.
C13_Witness ==
  /\ MinReturned
  /\ args[1] = Null
  /\ args[2] = Some(0)
  /\ result = Some(0)

-----------------------------------------------------------------------------
(* A bucket without values in buildGeminiCliQuotaBuckets. *)

AllNull(b) == b.remainingFraction = Null /\ b.remainingAmount = Null /\ b.resetTime = Undefined

\* The positions of the non-ignored buckets without values whose model is not the
\* preferred model of their group.
AllNullIdx ==
  { i \in KeptIdx :
      /\ AllNull(buckets[i])
      /\ LET group == GEMINI_CLI_GROUP_LOOKUP(buckets[i].modelId)
         IN  group = Undefined \/ Val(group).preferredModelId # Some(buckets[i].modelId) }

\* The input without the bucket at position i.
WithoutBucket(i) == SubSeq(buckets, 1, i - 1) \o SubSeq(buckets, i + 1, Len(buckets))

\* The emitted groups of a result that have the id of bucket b's key.
StatesOfKey(states, b) == { k \in 1..Len(states) : states[k].id = ExpectedStateId(b) }

SiblingIdx(i) == { j \in KeptIdx \ {i} : CompositeKey(buckets[j]) = CompositeKey(buckets[i]) }

\* What C14 asks of the bucket at position i, a reset time compared by sameReset.
AllNullBucketRule(i, sameReset(_, _)) ==
  LET b == buckets[i]
      with == StatesOfKey(bucketStates, b)
      rest == buildGeminiCliQuotaBuckets(WithoutBucket(i))
      without == StatesOfKey(rest, b)
  IN  /\ Cardinality(with) = 1
      /\ LET g == bucketStates[CHOOSE k \in with : TRUE]
         IN  /\ b.modelId \in SeqToSet(g.modelIds)
             /\ IF SiblingIdx(i) = {}
                THEN RawValues(g) = <<Null, Null, Undefined>> /\ without = {}
                ELSE /\ Cardinality(without) = 1
                     /\ LET h == rest[CHOOSE k \in without : TRUE]
                        IN  /\ g.remainingFraction = h.remainingFraction
                            /\ g.remainingAmount = h.remainingAmount
                            /\ sameReset(g.resetTime, h.resetTime)

\* C14 as stated: a non-ignored, non-preferred bucket without values is listed in its
\* group's modelIds and leaves the group's fraction, amount and reset time exactly
\* what they are for the input without it; alone in its group it gives null, null
\* and no reset time.
C14_AllNullBucketLeavesAggregate ==
  GeminiReturned => \A i \in AllNullIdx : AllNullBucketRule(i, LAMBDA x, y : x = y)

\* C14: as above, where an empty reset time and an absent one both count as no reset
\* time: after a bucket without values, a group's empty reset time is undefined.
C14_AllNullBucketLeavesAggregateUpToEmpty ==
  GeminiReturned =>
    \A i \in AllNullIdx :
      AllNullBucketRule(i, LAMBDA x, y : x = y \/ (x = Undefined /\ y = Some("")))

\* C14's case: a bucket without values between two siblings with values, in a group
\* without preferred model: the id listed once, the least fraction and amount and the
\* earlier reset time of the two siblings reported.
C14_Witness ==
  /\ GeminiReturned
  /\ Len(buckets) = 3
  /\ AllNullIdx = {2}
  /\ SiblingIdx(2) = {1, 3}
  /\ buckets[2].modelId = GeminiIgnoredUpper
  /\ RawValues(buckets[1]) = <<Some(30), Some(900), Some(ResetLate)>>
  /\ RawValues(buckets[3]) = <<Some(80), Some(500), Some(ResetEarly)>>
  /\ Len(bucketStates) = 1
  /\ RawValues(bucketStates[1]) = <<Some(30), Some(500), Some(ResetEarly)>>
  /\ Len(bucketStates[1].modelIds) = 1

-----------------------------------------------------------------------------
(* getAntigravityQuotaInfo called on its own.                              *)

\* The quota objects drawn: each of the five fields the function reads, there or not;
\* a reset value that is a number is there but no string.
QuotaInfoObjects ==
  { [remainingFraction |-> f1, remaining_fraction |-> f2, remaining |-> f3,
     resetTime |-> r1, reset_time |-> r2] :
      f1 \in {Undefined, Some(Num(50))},
      f2 \in {Undefined, Some(Num(80))},
      f3 \in {Undefined, Some(Num(20))},
      r1 \in {Undefined, Some(Str(ResetLate)), Some(Num(1735689600))},
      r2 \in {Undefined, Some(Str(ResetEarly))} }

OptionalQuotaInfoObjects == {Undefined} \cup { Some(q) : q \in QuotaInfoObjects }

InitQuotaInfo ==
  /\ call = "getAntigravityQuotaInfo"
  /\ \/ args = <<Undefined>>
     \/ \E structured \in OptionalQuotaInfoObjects, legacy \in OptionalQuotaInfoObjects :
          args = <<EntryOf(structured, legacy, Undefined)>>
  /\ buckets = <<>>
  /\ models = <<>>
  /\ bucketStates = <<>>
  /\ groups = <<>>
  /\ result = <<>>
  /\ heap = <<>>
  /\ NoTraeSection
  /\ pc = "called"

getAntigravityQuotaInfoCall ==
  /\ pc = "called"
  /\ call = "getAntigravityQuotaInfo"
  /\ result' = getAntigravityQuotaInfo(args[1])
  /\ pc' = "returned"
  /\ UNCHANGED <<call, buckets, models, bucketStates, groups, args, heap, traeVars>>

SpecQuotaInfo == InitQuotaInfo /\ [][getAntigravityQuotaInfoCall]_vars

QuotaInfoReturned == pc = "returned" /\ call = "getAntigravityQuotaInfo"

\* An entry in the two shapes, each with the fields of its own naming only: quotaInfo
\* with camelCase fields, quota_info with snake_case fields.
StructuredOf(entry) == Val(entry).quotaInfo
LegacyOf(entry) == Val(entry).quota_info

PureShapes(entry) ==
  /\ entry # Undefined
  /\ StructuredOf(entry) # Undefined =>
       /\ Val(StructuredOf(entry)).remaining_fraction = Undefined
       /\ Val(StructuredOf(entry)).remaining = Undefined
       /\ Val(StructuredOf(entry)).reset_time = Undefined
  /\ LegacyOf(entry) # Undefined =>
       /\ Val(LegacyOf(entry)).remainingFraction = Undefined
       /\ Val(LegacyOf(entry)).resetTime = Undefined

\* A field of an optional object.
StructuredField(entry, get(_)) ==
  IF StructuredOf(entry) = Undefined THEN Undefined ELSE get(Val(StructuredOf(entry)))
LegacyField(entry, get(_)) ==
  IF LegacyOf(entry) = Undefined THEN Undefined ELSE get(Val(LegacyOf(entry)))

\* The string of a raw reset value, undefined when it is no string.
ResetString(value) ==
  IF value # Undefined /\ Val(value).t = "string" THEN Some(Val(value).s) ELSE Undefined

\* C15 as stated: each field is the structured shape's when present there, and the
\* legacy shape's otherwise, field by field.
C15_FieldByFieldFallback ==
  (QuotaInfoReturned /\ PureShapes(args[1])) =>
    LET entry == args[1]
        fraction ==
          Coalesce(StructuredField(entry, LAMBDA q : q.remainingFraction),
                   Coalesce(LegacyField(entry, LAMBDA q : q.remaining_fraction),
                            LegacyField(entry, LAMBDA q : q.remaining)))
        reset ==
          Coalesce(StructuredField(entry, LAMBDA q : q.resetTime),
                   LegacyField(entry, LAMBDA q : q.reset_time))
    IN  /\ result.remainingFraction = normalizeQuotaFraction(fraction)
        /\ result.resetTime = ResetString(reset)

-----------------------------------------------------------------------------
(* QuotaCard.tsx: the classification helpers of an auth file item.         *)
(* A boolean result that may be undefined is an optional boolean.          *)

\* s.includes(sub) and s.startsWith(prefix) are the searches of the strings.
Includes(s, sub) ==
  \E i \in 1..(Len(s) - Len(sub) + 1) : SubSeq(s, i, i + Len(sub) - 1) = sub

\* message?.includes(sub): undefined when there is no message.
OptionalIncludes(message, sub) ==
  IF message = Undefined THEN Undefined ELSE Some(Includes(Val(message), sub))

\* a || b of two optional booleans: a when a is true, b otherwise.
OrElse(a, b) == IF a = Some(TRUE) THEN a ELSE b

\* Mutant: the status not looked at.
isExhaustedErrorAnyStatus(item) ==
  IF item.last_error = Undefined THEN Some(FALSE)
  ELSE LET message == Val(item.last_error).message
       IN  OrElse(OptionalIncludes(message, "RESOURCE_EXHAUSTED"),
                  OptionalIncludes(message, "Resource has been exhausted"))

isExhaustedError(item) ==
  IF item.last_error = Undefined THEN Some(FALSE)
  ELSE LET http_status == Val(item.last_error).http_status
           message == Val(item.last_error).message
       IN  IF http_status # Some(429) THEN Some(FALSE)
           ELSE OrElse(OptionalIncludes(message, "RESOURCE_EXHAUSTED"),
                       OptionalIncludes(message, "Resource has been exhausted"))

\* Mutant: the sentinel searched anywhere in the string.
isGoZeroTimeAnywhere(timeStr) ==
  IF Falsy(timeStr) THEN FALSE ELSE Includes(Val(timeStr), "0001-01-01")

isGoZeroTime(timeStr) ==
  IF Falsy(timeStr) THEN FALSE ELSE StartsWith(Val(timeStr), "0001-01-01")

\* item.quota?.exceeded and item.quota_exceeded as conditions.
QuotaObjectExceeded(item) == item.quota # Undefined /\ Val(item.quota).exceeded = TRUE
FlatQuotaExceeded(item) == item.quota_exceeded = Some(TRUE)

\* item.quota?.next_recover_at || item.quota_next_recover_at
RecoverAtOf(item) ==
  LET nested == IF item.quota = Undefined THEN Undefined ELSE Val(item.quota).next_recover_at
  IN  IF Falsy(nested) THEN item.quota_next_recover_at ELSE nested

isNeverRecoverQuota(item) ==
  IF ~QuotaObjectExceeded(item) /\ ~FlatQuotaExceeded(item) THEN FALSE
  ELSE isGoZeroTime(RecoverAtOf(item))

GoZeroTime == "0001-01-01T00:00:00Z"
GoZeroTimeInside == "at 0001-01-01T00:00:00Z"

LastErrors ==
  { [http_status |-> h, message |-> m] :
      h \in {Undefined, Some(429), Some(500), Some(428)},
      m \in { Undefined, Some(""), Some("rate limited"),
              Some("quota: RESOURCE_EXHAUSTED now"),
              Some("Resource has been exhausted (e.g. check quota)."),
              Some("resource_exhausted"), Some("RESOURCE_EXHAUSTE") } }

QuotaStates ==
  { [exceeded |-> e, next_recover_at |-> t] :
      e \in BOOLEAN,
      t \in { Undefined, Some(""), Some(GoZeroTime), Some(GoZeroTimeInside), Some(ResetLate) } }

AuthFileItems ==
  { [last_error |-> le, quota |-> q, quota_exceeded |-> qe, quota_next_recover_at |-> qt] :
      le \in {Undefined} \cup { Some(e) : e \in LastErrors },
      q \in {Undefined} \cup { Some(x) : x \in QuotaStates },
      qe \in {Undefined, Some(TRUE), Some(FALSE)},
      qt \in {Undefined, Some(GoZeroTime), Some(ResetLate)} }

InitQuotaCard ==
  /\ call \in {"isExhaustedError", "isNeverRecoverQuota"}
  /\ \E item \in AuthFileItems : args = <<item>>
  /\ buckets = <<>>
  /\ models = <<>>
  /\ bucketStates = <<>>
  /\ groups = <<>>
  /\ result = <<>>
  /\ heap = <<>>
  /\ NoTraeSection
  /\ pc = "called"

isExhaustedErrorCall ==
  /\ pc = "called"
  /\ call = "isExhaustedError"
  /\ result' = isExhaustedError(args[1])
  /\ pc' = "returned"
  /\ UNCHANGED <<call, buckets, models, bucketStates, groups, args, heap, traeVars>>

isNeverRecoverQuotaCall ==
  /\ pc = "called"
  /\ call = "isNeverRecoverQuota"
  /\ result' = isNeverRecoverQuota(args[1])
  /\ pc' = "returned"
  /\ UNCHANGED <<call, buckets, models, bucketStates, groups, args, heap, traeVars>>

NextQuotaCard == isExhaustedErrorCall \/ isNeverRecoverQuotaCall

SpecQuotaCard == InitQuotaCard /\ [][NextQuotaCard]_vars

ExhaustedReturned == pc = "returned" /\ call = "isExhaustedError"
NeverRecoverReturned == pc = "returned" /\ call = "isNeverRecoverQuota"

\* C16: the result is true exactly when there is a last error with status 429 whose
\* message contains one of the two texts; in every other case it is not true.
C16_ExhaustedIffStatusAndText ==
  ExhaustedReturned =>
    LET item == args[1]
    IN  (result = Some(TRUE)) <=>
          /\ item.last_error # Undefined
          /\ Val(item.last_error).http_status = Some(429)
          /\ Val(item.last_error).message # Undefined
          /\ \/ Includes(Val(Val(item.last_error).message), "RESOURCE_EXHAUSTED")
             \/ Includes(Val(Val(item.last_error).message), "Resource has been exhausted")

\* C16's case: status 429 with the second text inside a longer message.
C16_Witness ==
  /\ ExhaustedReturned
  /\ args[1].last_error =
       Some([http_status |-> Some(429),
             message |-> Some("Resource has been exhausted (e.g. check quota).")])
  /\ result = Some(TRUE)

\* The item is flagged exceeded, by its quota object or by the flat field.
FlaggedExceeded(item) == QuotaObjectExceeded(item) \/ FlatQuotaExceeded(item)

\* C17 as stated: true exactly when the item is flagged exceeded and its recorded
\* next-recovery time starts with the sentinel; false whenever the quota object has
\* exceeded = false.
C17_NeverRecoverIffExceededAndSentinel ==
  NeverRecoverReturned =>
    LET item == args[1]
        recoverAt == RecoverAtOf(item)
    IN  /\ result <=>
             /\ FlaggedExceeded(item)
             /\ recoverAt # Undefined
             /\ StartsWith(Val(recoverAt), "0001-01-01")
        /\ (item.quota # Undefined /\ Val(item.quota).exceeded = FALSE) => ~result

\* C17: as above, the result false when the quota object has exceeded = false and
\* the flat flag quota_exceeded is not set either.
C17_NeverRecoverIffEitherFlagAndSentinel ==
  NeverRecoverReturned =>
    LET item == args[1]
        recoverAt == RecoverAtOf(item)
    IN  /\ result <=>
             /\ FlaggedExceeded(item)
             /\ recoverAt # Undefined
             /\ StartsWith(Val(recoverAt), "0001-01-01")
        /\ (item.quota # Undefined /\ Val(item.quota).exceeded = FALSE
              /\ item.quota_exceeded # Some(TRUE)) => ~result
        /\ (FlaggedExceeded(item) /\ Falsy(recoverAt)) => ~result

\* C17's case: the quota object exceeded with the sentinel time; the result is true.
C17_Witness ==
  /\ NeverRecoverReturned
  /\ args[1].quota = Some([exceeded |-> TRUE, next_recover_at |-> Some(GoZeroTime)])
  /\ args[1].quota_exceeded = Undefined
  /\ result = TRUE

-----------------------------------------------------------------------------
(* The builders on a heap.  An object is a cell of the heap, its address   *)
(* the position of the cell; a field that holds an array or an object      *)
(* holds its address.  Allocation appends a cell.  The kinds of cell:      *)
(* "bucket", "entry" (input objects), "refs" (array of addresses),         *)
(* "payload" (the models object), "strings" (array of model ids), "group"  *)
(* (GeminiCliQuotaBucketGroup), "state" (GeminiCliQuotaBucketState) and    *)
(* "quotaGroup" (AntigravityQuotaGroup).                                   *)

Cell(kind, v) == [kind |-> kind, v |-> v]

\* The addresses a cell holds.
RefsOf(cell) ==
  CASE cell.kind = "refs" -> SeqToSet(cell.v)
    [] cell.kind = "payload" ->
         { Val(cell.v[i].entry) : i \in { j \in 1..Len(cell.v) : cell.v[j].entry # Undefined } }
    [] cell.kind = "group" ->
         {cell.v.modelIds}
           \cup (IF cell.v.preferredBucket = Undefined THEN {} ELSE {Val(cell.v.preferredBucket)})
    [] cell.kind = "state" -> {cell.v.modelIds}
    [] cell.kind = "quotaGroup" -> {cell.v.models}
    [] OTHER -> {}

\* The cells reachable from a set of addresses (three levels suffice for a result:
\* the array, its objects, their arrays).
ReachStep(h, S) == S \cup UNION { RefsOf(h[a]) : a \in S }
Reach(h, a) == ReachStep(h, ReachStep(h, ReachStep(h, {a})))

\* The iteration of buckets.forEach for a bucket whose key is new: the array literal
\* [bucket.modelId] and the group object are allocated; preferredBucket is the
\* bucket itself, by reference.
GeminiHeapNew(st, ba) ==
  LET h == st.heap
      bucket == h[ba].v
      group == GeminiNewGroup(bucket)
      idsAt == Len(h) + 1
      groupAt == Len(h) + 2
  IN  [heap |-> h \o << Cell("strings", <<bucket.modelId>>),
                         Cell("group",
                              [group EXCEPT
                                 !.modelIds = idsAt,
                                 !.preferredBucket =
                                    IF group.preferredBucket = Undefined THEN Undefined
                                    ELSE Some(ba)]) >>,
       grouped |-> Append(st.grouped, [mapKey |-> group.mapKey, at |-> groupAt])]

\* Mutant: the merge also stores the folded fraction in the bucket it reads.
GeminiHeapMergeIntoBucket(st, ga, ba) ==
  LET h == st.heap
      existing == h[ga].v
      bucket == h[ba].v
      fraction == minNullableNumber(existing.fallbackRemainingFraction, bucket.remainingFraction)
  IN  [st EXCEPT !.heap =
         [h EXCEPT ![ga].v.fallbackRemainingFraction = fraction,
                   ![ba].v.remainingFraction = fraction,
                   ![existing.modelIds].v = Append(@, bucket.modelId)]]

\* The iteration for a bucket whose key has a group: the group object's fields are
\* assigned and its modelIds array is pushed to.
GeminiHeapMerge(st, ga, ba) ==
  LET h == st.heap
      existing == h[ga].v
      bucket == h[ba].v
  IN  [st EXCEPT !.heap =
         [h EXCEPT
            ![ga].v =
               [existing EXCEPT
                  !.fallbackRemainingFraction =
                     minNullableNumber(existing.fallbackRemainingFraction,
                                       bucket.remainingFraction),
                  !.fallbackRemainingAmount =
                     minNullableNumber(existing.fallbackRemainingAmount,
                                       bucket.remainingAmount),
                  !.fallbackResetTime =
                     pickEarlierResetTime(existing.fallbackResetTime, bucket.resetTime),
                  !.preferredBucket =
                     IF GeminiIsPreferred(existing.preferredModelId, bucket)
                     THEN Some(ba) ELSE existing.preferredBucket],
            ![existing.modelIds].v = Append(@, bucket.modelId)]]

GeminiHeapForEach(st, ba) ==
  LET bucket == st.heap[ba].v
  IN  IF isIgnoredGeminiCliModel(bucket.modelId) THEN st
      ELSE LET i == GeminiMapIndex(st.grouped, GeminiMapKey(bucket))
           IN  IF i = 0 THEN GeminiHeapNew(st, ba)
               ELSE GeminiHeapMerge(st, st.grouped[i].at, ba)

RECURSIVE GeminiHeapGrouped(_, _, _)
GeminiHeapGrouped(h, bucketsAt, n) ==
  IF n = 0 THEN [heap |-> h, grouped |-> <<>>]
  ELSE GeminiHeapForEach(GeminiHeapGrouped(h, bucketsAt, n - 1), h[bucketsAt].v[n])

\* The map callback for the k-th group: Array.from(new Set(...)) and the object
\* literal are allocated; the values are read through preferredBucket.
RECURSIVE GeminiHeapEmit(_, _)
GeminiHeapEmit(st, k) ==
  IF k = 0 THEN [heap |-> st.heap, states |-> <<>>]
  ELSE LET before == GeminiHeapEmit(st, k - 1)
           h == before.heap
           bucket == h[st.grouped[k].at].v
           preferred == bucket.preferredBucket
           uniqueAt == Len(h) + 1
           stateAt == Len(h) + 2
       IN  [heap |->
              h \o << Cell("strings", UniqueInOrder(h[bucket.modelIds].v)),
                      Cell("state",
                           [id |-> bucket.id,
                            label |-> bucket.label,
                            remainingFraction |->
                              IF preferred # Undefined
                              THEN h[Val(preferred)].v.remainingFraction
                              ELSE bucket.fallbackRemainingFraction,
                            remainingAmount |->
                              IF preferred # Undefined
                              THEN h[Val(preferred)].v.remainingAmount
                              ELSE bucket.fallbackRemainingAmount,
                            resetTime |->
                              IF preferred # Undefined
                              THEN h[Val(preferred)].v.resetTime
                              ELSE bucket.fallbackResetTime,
                            tokenType |-> bucket.tokenType,
                            modelIds |-> uniqueAt]) >>,
            states |-> Append(before.states, stateAt)]

\* buildGeminiCliQuotaBuckets on the array at bucketsAt: the heap after the call and
\* the address of the array returned.
buildGeminiCliQuotaBucketsOnHeap(h, bucketsAt) ==
  LET grouped == GeminiHeapGrouped(h, bucketsAt, Len(h[bucketsAt].v))
      emitted == GeminiHeapEmit(grouped, Len(grouped.grouped))
  IN  [heap |-> Append(emitted.heap, Cell("refs", emitted.states)),
       ret |-> Len(emitted.heap) + 1]

\* The entry of a payload item as getAntigravityQuotaInfo receives it.
EntryAt(h, item) ==
  IF item.entry = Undefined THEN Undefined ELSE Some(h[Val(item.entry)].v)

\* One iteration of the loop of buildAntigravityQuotaGroups on the heap: the object
\* literals and their `models` arrays are allocated; groups.push and the
\* assignments to claudeGroup write to cells the call allocated.
AntigravityHeapForEntry(st, groupsAt, item) ==
  IF isIgnoredAntigravityModel(item.modelId) THEN st
  ELSE LET h == st.heap
           info == getAntigravityQuotaInfo(EntryAt(h, item))
           remainingFraction == AntigravityRemainingFraction(info)
           modelsAt == Len(h) + 1
           groupAt == Len(h) + 2
       IN  IF AntigravityDropped(remainingFraction) THEN st
           ELSE IF isClaudeModel(item.modelId)
           THEN IF st.claudeGroup = Null
                THEN [heap |->
                        h \o << Cell("strings", <<item.modelId>>),
                                Cell("quotaGroup",
                                     [AntigravityNewClaudeGroup(item.modelId,
                                                                remainingFraction, info)
                                        EXCEPT !.models = modelsAt]) >>,
                      claudeGroup |-> Some(groupAt)]
                ELSE LET at == Val(st.claudeGroup)
                         claudeGroup == h[at].v
                     IN  [st EXCEPT !.heap =
                            [h EXCEPT
                               ![claudeGroup.models].v = Append(@, item.modelId),
                               ![at].v =
                                  [claudeGroup EXCEPT
                                     !.remainingFraction =
                                        Some(MathMin(ToNumber(claudeGroup.remainingFraction),
                                                     ToNumber(remainingFraction))),
                                     !.resetTime =
                                        pickEarlierResetTime(claudeGroup.resetTime,
                                                             info.resetTime)]]]
           ELSE [st EXCEPT !.heap =
                   [h EXCEPT ![groupsAt].v = Append(@, groupAt)]
                     \o << Cell("strings", <<item.modelId>>),
                           Cell("quotaGroup",
                                [AntigravityModelGroup(item.modelId, remainingFraction, info)
                                   EXCEPT !.models = modelsAt]) >>]

RECURSIVE AntigravityHeapLoop(_, _, _, _)
AntigravityHeapLoop(h, modelsAt, groupsAt, n) ==
  IF n = 0 THEN [heap |-> h, claudeGroup |-> Null]
  ELSE AntigravityHeapForEntry(AntigravityHeapLoop(h, modelsAt, groupsAt, n - 1),
                               groupsAt, h[modelsAt].v[n])

\* buildAntigravityQuotaGroups on the payload at modelsAt: `const groups = []` is
\* allocated first and is the array returned.
buildAntigravityQuotaGroupsOnHeap(h, modelsAt) ==
  LET groupsAt == Len(h) + 1
      looped == AntigravityHeapLoop(Append(h, Cell("refs", <<>>)), modelsAt, groupsAt,
                                    Len(h[modelsAt].v))
  IN  [heap |->
         IF looped.claudeGroup # Null
         THEN [looped.heap EXCEPT ![groupsAt].v = <<Val(looped.claudeGroup)>> \o @]
         ELSE looped.heap,
       ret |-> groupsAt]

\* The value an address denotes: the array of results with every array field read out.
DeepStates(h, at) ==
  [k \in 1..Len(h[at].v) |->
     LET state == h[h[at].v[k]].v IN [state EXCEPT !.modelIds = h[state.modelIds].v]]

DeepGroups(h, at) ==
  [k \in 1..Len(h[at].v) |->
     LET group == h[h[at].v[k]].v IN [group EXCEPT !.models = h[group.models].v]]

DeepBuckets(h, at) == [k \in 1..Len(h[at].v) |-> h[h[at].v[k]].v]

DeepModels(h, at) ==
  [k \in 1..Len(h[at].v) |->
     [modelId |-> h[at].v[k].modelId, entry |-> EntryAt(h, h[at].v[k])]]

-----------------------------------------------------------------------------
(* The state machine of repeated calls: a builder is called on an input,   *)
(* possibly on another input in between, and again on the first input.     *)
(* args.input is the address of the first input, args.before the heap      *)
(* before any call; result lists, per call, the address of the argument    *)
(* and the address returned.                                               *)

PurityBuckets ==
  { [modelId |-> m, tokenType |-> Null, remainingFraction |-> v[1],
     remainingAmount |-> v[2], resetTime |-> v[3]] :
      m \in {GeminiProPreferred, GeminiProSibling, GeminiIgnored},
      v \in { <<Null, Null, Undefined>>,
              <<Some(30), Some(900), Some(ResetLate)>>,
              <<Some(80), Some(500), Some(ResetEarly)>> } }

PurityModelIds == {"claude-opus", "Claude-Sonnet", "ulw", "ULW"}

PurityEntries ==
  { Undefined,
    EntryOf(Some(QuotaInfoOf(Some(Num(50)), Some(Str(ResetLate)))), Undefined,
            Some(Str("Model A"))),
    EntryOf(Undefined, Some(LegacyQuotaInfoOf(Some(Num(80)), Some(Str(ResetEarly)))),
            Undefined),
    EntryOf(Some(QuotaInfoOf(Undefined, Some(Str(ResetEarly)))), Undefined, Undefined) }

\* The input of the call in between: two buckets of one group, and two members of
\* the Claude family.
PurityOtherBuckets ==
  << [modelId |-> GeminiProSibling, tokenType |-> Null, remainingFraction |-> Some(80),
      remainingAmount |-> Some(500), resetTime |-> Some(ResetEarly)],
     [modelId |-> GeminiProPreferred, tokenType |-> Null, remainingFraction |-> Some(30),
      remainingAmount |-> Some(900), resetTime |-> Some(ResetLate)] >>

PurityOtherModels ==
  EntriesOf(2, <<"claude-opus", "Claude-Sonnet">>,
            << EntryOf(Some(QuotaInfoOf(Some(Num(50)), Some(Str(ResetLate)))), Undefined,
                       Some(Str("Model A"))),
               EntryOf(Undefined,
                       Some(LegacyQuotaInfoOf(Some(Num(80)), Some(Str(ResetEarly)))),
                       Undefined) >>)

\* A parsed bucket array on the heap: one object per bucket, then the array.
AllocBuckets(h, bs) ==
  [heap |->
     h \o [i \in 1..Len(bs) |-> Cell("bucket", bs[i])]
       \o << Cell("refs", [i \in 1..Len(bs) |-> Len(h) + i]) >>,
   at |-> Len(h) + Len(bs) + 1]

\* The number of entry objects among the first i items of a payload.
EntryObjects(ms, i) == Cardinality({ j \in 1..i : ms[j].entry # Undefined })

\* A models payload on the heap: one object per entry that is an object, then the
\* payload with the addresses.
AllocModels(h, ms) ==
  LET defined == SelectSeq(ms, LAMBDA m : m.entry # Undefined)
  IN  [heap |->
         h \o [i \in 1..Len(defined) |-> Cell("entry", Val(defined[i].entry))]
           \o << Cell("payload",
                      [i \in 1..Len(ms) |->
                         [modelId |-> ms[i].modelId,
                          entry |-> IF ms[i].entry = Undefined THEN Undefined
                                    ELSE Some(Len(h) + EntryObjects(ms, i))]]) >>,
       at |-> Len(h) + Len(defined) + 1]

InitPurity ==
  /\ call \in {"buildGeminiCliQuotaBuckets", "buildAntigravityQuotaGroups"}
  /\ IF call = "buildGeminiCliQuotaBuckets"
     THEN /\ \E k \in 0..MaxBuckets : buckets \in [1..k -> PurityBuckets]
          /\ models = <<>>
          /\ heap = AllocBuckets(<<>>, buckets).heap
          /\ args = [input |-> AllocBuckets(<<>>, buckets).at, before |-> heap]
     ELSE /\ buckets = <<>>
          /\ \E k \in 0..MaxModels :
               \E ids \in [1..k -> PurityModelIds] :
                 /\ Injective(k, ids)
                 /\ \E es \in [1..k -> PurityEntries] : models = EntriesOf(k, ids, es)
          /\ heap = AllocModels(<<>>, models).heap
          /\ args = [input |-> AllocModels(<<>>, models).at, before |-> heap]
  /\ bucketStates = <<>>
  /\ groups = <<>>
  /\ pc = "called"
  /\ result = <<>>
  /\ NoTraeSection

BuilderOnHeap(h, at) ==
  IF call = "buildGeminiCliQuotaBuckets" THEN buildGeminiCliQuotaBucketsOnHeap(h, at)
  ELSE buildAntigravityQuotaGroupsOnHeap(h, at)

\* A call on the first input.
CallOnInput ==
  /\ pc \in {"called", "once", "between"}
  /\ LET r == BuilderOnHeap(heap, args.input)
     IN  /\ heap' = r.heap
         /\ result' = Append(result, [of |-> args.input, ret |-> r.ret])
  /\ pc' = IF pc = "called" THEN "once" ELSE "twice"
  /\ UNCHANGED <<call, buckets, models, bucketStates, groups, args, traeVars>>

\* A call on another input, parsed after the first call.
CallOnOther ==
  /\ pc = "once"
  /\ LET other == IF call = "buildGeminiCliQuotaBuckets"
                  THEN AllocBuckets(heap, PurityOtherBuckets)
                  ELSE AllocModels(heap, PurityOtherModels)
         r == BuilderOnHeap(other.heap, other.at)
     IN  /\ heap' = r.heap
         /\ result' = Append(result, [of |-> other.at, ret |-> r.ret])
  /\ pc' = "between"
  /\ UNCHANGED <<call, buckets, models, bucketStates, groups, args, traeVars>>

NextPurity == CallOnInput \/ CallOnOther

SpecPurity == InitPurity /\ [][NextPurity]_vars

\* The values of the argument and of the result of a call, read from the heap.
DeepInput(h, at) ==
  IF call = "buildGeminiCliQuotaBuckets" THEN DeepBuckets(h, at) ELSE DeepModels(h, at)

DeepResult(h, at) ==
  IF call = "buildGeminiCliQuotaBuckets" THEN DeepStates(h, at) ELSE DeepGroups(h, at)

\* C18: The builders are pure: no cell of an argument is written (the first input's
\* cells hold what they held before any call), no cell of a result is a cell of any
\* argument or of any other call's result, and two calls whose arguments are equal
\* in value return results equal in value, whatever was called in between.
C18_BuildersArePure ==
  /\ \A a \in 1..Len(args.before) : heap[a] = args.before[a]
  /\ \A i, j \in 1..Len(result) :
       /\ Reach(heap, result[i].ret) \cap Reach(heap, result[j].of) = {}
       /\ i # j => Reach(heap, result[i].ret) \cap Reach(heap, result[j].ret) = {}
       /\ DeepInput(heap, result[i].of) = DeepInput(heap, result[j].of)
            => DeepResult(heap, result[i].ret) = DeepResult(heap, result[j].ret)

\* C18 witness: buildGeminiCliQuotaBuckets has returned three times, the second call
\* on another input, each time with a group merged from two buckets and rendered
\* from its preferred bucket.
C18_Witness ==
  /\ pc = "twice"
  /\ call = "buildGeminiCliQuotaBuckets"
  /\ Len(result) = 3
  /\ \A i \in 1..3 :
       \E k \in 1..Len(heap[result[i].ret].v) :
         /\ Len(DeepResult(heap, result[i].ret)[k].modelIds) = 2
         /\ \E n \in 1..Len(DeepInput(heap, result[i].of)) :
              /\ DeepInput(heap, result[i].of)[n].modelId = GeminiProPreferred
              /\ DeepInput(heap, result[i].of)[n].remainingFraction
                   = DeepResult(heap, result[i].ret)[k].remainingFraction

-----------------------------------------------------------------------------
(* Undefined and partial entries of the Antigravity payload. *)

\* The nested object getAntigravityQuotaInfo reads, when the entry has one.
NestedOf(entry) == Coalesce(Val(entry).quotaInfo, Val(entry).quota_info)

\* An entry that is undefined, has neither nested object, or whose nested object
\* has no fraction field, no reset field, or a reset value that is not a string.
PartialEntry(entry) ==
  \/ entry = Undefined
  \/ NestedOf(entry) = Undefined
  \/ LET quotaInfo == Val(NestedOf(entry))
         remainingValue ==
           Coalesce(quotaInfo.remainingFraction,
                    Coalesce(quotaInfo.remaining_fraction, quotaInfo.remaining))
         resetValue == Coalesce(quotaInfo.resetTime, quotaInfo.reset_time)
     IN  \/ remainingValue = Undefined
         \/ resetValue = Undefined
         \/ Val(resetValue).t # "string"

PartialIdx ==
  { i \in 1..Len(models) :
      models[i].modelId \notin IGNORED_ANTIGRAVITY_MODELS /\ PartialEntry(models[i].entry) }

\* The payload without its i-th entry.
WithoutEntry(i) == SubSeq(models, 1, i - 1) \o SubSeq(models, i + 1, Len(models))

\* The groups of gs that list the model id, and those that do not.
ListingGroups(gs, modelId) == SelectSeq(gs, LAMBDA g : modelId \in SeqToSet(g.models))
OtherGroups(gs, modelId) == SelectSeq(gs, LAMBDA g : modelId \notin SeqToSet(g.models))

AntigravityFinished ==
  pc \in {"returned", "raised"} /\ call = "buildAntigravityQuotaGroups"

\* C19 as stated: the call does not raise; a partial entry is dropped exactly when it
\* has neither a fraction nor a reset time; and every other surviving entry is listed
\* by the same group as in the result for the payload without the partial entry.
C19_PartialEntryLeavesOthers ==
  AntigravityFinished =>
    /\ pc = "returned"
    /\ \A i \in PartialIdx :
         LET other == buildAntigravityQuotaGroups(WithoutEntry(i))
         IN  /\ (ListingGroups(groups, models[i].modelId) = <<>>) <=> (i \notin SurvivingIdx)
             /\ \A j \in SurvivingIdx \ {i} :
                  ListingGroups(groups, models[j].modelId)
                    = ListingGroups(other, models[j].modelId)

\* C19, amended: the call does not raise; a partial entry is dropped exactly when it
\* has neither a fraction nor a reset time, and then the result is the result for
\* the payload without it; a partial entry that is kept leaves every group that does
\* not list it as in the result for the payload without it, in the same order (the
\* merged Claude group, which lists it when it is of the family, is the exception).
C19_PartialEntryLeavesGroupsNotListingIt ==
  AntigravityFinished =>
    /\ pc = "returned"
    /\ \A i \in PartialIdx :
         LET other == buildAntigravityQuotaGroups(WithoutEntry(i))
             modelId == models[i].modelId
         IN  /\ (ListingGroups(groups, modelId) = <<>>) <=> (i \notin SurvivingIdx)
             /\ i \notin SurvivingIdx => groups = other
             /\ i \in SurvivingIdx =>
                  OtherGroups(groups, modelId)
                    = IF ClaudeFamily(modelId)
                      THEN SelectSeq(other, LAMBDA g : g.id # "claude-merged")
                      ELSE other

\* C19 witness: a payload with an undefined entry, which is dropped, and a Claude
\* entry with a reset time and no fraction, which is defaulted and merged with
\* another Claude entry.
C19_Witness ==
  /\ AntigravityReturned
  /\ \E i \in PartialIdx : models[i].entry = Undefined
  /\ \E i \in PartialIdx \cap ClaudeIdx :
       /\ InfoAt(i).remainingFraction = Null
       /\ \E j \in ClaudeIdx \ {i} : j \notin PartialIdx

-----------------------------------------------------------------------------
(* TraeSection: the OAuth login with polling.                              *)
(*                                                                         *)
(* A login is numbered by the order of the clicks; the state the server    *)
(* returns for it and the interval timer startPolling creates for it carry *)
(* the same number.  timers is the set of live interval timers,            *)
(* pollingTimer the ref (the id last stored, never reset to null),         *)
(* authPending the startAuth requests in flight, polls[l] the number of    *)
(* getAuthStatus requests of login l in flight, listPending the number of  *)
(* authFilesApi.list requests in flight.  notifications is the log of      *)
(* showNotification, completed the logins for which a poll response with   *)
(* status 'ok' or 'error' has been handled.  After the unmount a state     *)
(* setter has no effect; refs, timers, requests and the notification store *)
(* work as before.  loadingBlocksClick says whether a Button with          *)
(* loading={true} ignores clicks; disableControls is taken to be false.    *)

\* Logins clicked, status requests of one login in flight, list requests in flight.
MaxLogins == 2
MaxInFlight == 2
MaxListPending == 2

PollStatuses == {"ok", "error", "wait"}

InitTrae ==
  /\ call = "TraeSection"
  /\ buckets = <<>>
  /\ models = <<>>
  /\ bucketStates = <<>>
  /\ groups = <<>>
  /\ pc = "rendered"
  /\ args = <<>>
  /\ result = <<>>
  /\ heap = <<>>
  /\ mounted = TRUE
  /\ loadingBlocksClick \in BOOLEAN
  /\ loading = TRUE
  /\ listPending = 1
  /\ isLoginInProgress = FALSE
  /\ authUrl = Null
  /\ oauthState = Null
  /\ pollingTimer = Null
  /\ timers = {}
  /\ authPending = {}
  /\ polls = <<>>
  /\ logins = 0
  /\ notifications = <<>>
  /\ completed = {}

pureVars == <<call, buckets, models, bucketStates, groups, pc, args, result, heap>>

\* A state setter: the new value while mounted, no effect after the unmount.
SetState(current, value) == IF mounted THEN value ELSE current

\* Mutant: startPolling and the handlers without clearInterval.
ClearNoTimer(live) == live

\* if (pollingTimer.current) window.clearInterval(pollingTimer.current)
ClearCurrentTimer(live) ==
  IF pollingTimer # Null THEN live \ {Val(pollingTimer)} ELSE live

\* A click on the login button: handleLogin up to its await.
HandleLogin ==
  /\ mounted
  /\ logins < MaxLogins
  /\ ~(loadingBlocksClick /\ isLoginInProgress)
  /\ logins' = logins + 1
  /\ isLoginInProgress' = TRUE
  /\ authUrl' = Null
  /\ oauthState' = Null
  /\ authPending' = authPending \cup {logins + 1}
  /\ polls' = Append(polls, 0)
  /\ UNCHANGED <<mounted, loadingBlocksClick, loading, listPending, pollingTimer, timers,
                 notifications, completed, pureVars>>

\* startAuth of login l resolves: setAuthUrl and, when res.state is set,
\* setOauthState and startPolling(res.state).
StartAuthResolve(l, hasState) ==
  /\ l \in authPending
  /\ authPending' = authPending \ {l}
  /\ authUrl' = SetState(authUrl, Some("url"))
  /\ IF hasState
     THEN /\ oauthState' = SetState(oauthState, Some(l))
          /\ timers' = ClearCurrentTimer(timers) \cup {l}
          /\ pollingTimer' = Some(l)
     ELSE UNCHANGED <<oauthState, timers, pollingTimer>>
  /\ UNCHANGED <<mounted, loadingBlocksClick, loading, listPending, isLoginInProgress,
                 polls, logins, notifications, completed, pureVars>>

\* startAuth of login l rejects: the catch of handleLogin.
StartAuthReject(l) ==
  /\ l \in authPending
  /\ authPending' = authPending \ {l}
  /\ notifications' = Append(notifications, [login |-> l, kind |-> "error", by |-> "startAuth"])
  /\ isLoginInProgress' = SetState(isLoginInProgress, FALSE)
  /\ UNCHANGED <<mounted, loadingBlocksClick, loading, listPending, authUrl, oauthState,
                 pollingTimer, timers, polls, logins, completed, pureVars>>

\* The interval timer of login l fires: the callback up to its await.
Tick(l) ==
  /\ l \in timers
  /\ polls[l] < MaxInFlight
  /\ polls' = [polls EXCEPT ![l] = @ + 1]
  /\ UNCHANGED <<mounted, loadingBlocksClick, loading, listPending, isLoginInProgress,
                 authUrl, oauthState, pollingTimer, timers, authPending, logins,
                 notifications, completed, pureVars>>

\* A getAuthStatus request of login l resolves with the status: the rest of the
\* callback, loadTraeConfigs up to its await included.
PollResolve(l, status) ==
  /\ l \in 1..Len(polls)
  /\ polls[l] > 0
  /\ polls' = [polls EXCEPT ![l] = @ - 1]
  /\ IF status = "ok"
     THEN /\ notifications' =
               Append(notifications, [login |-> l, kind |-> "success", by |-> "poll"])
          /\ isLoginInProgress' = SetState(isLoginInProgress, FALSE)
          /\ authUrl' = SetState(authUrl, Null)
          /\ timers' = ClearCurrentTimer(timers)
          /\ loading' = SetState(loading, TRUE)
          /\ listPending' = listPending + 1
          /\ completed' = completed \cup {l}
     ELSE IF status = "error"
     THEN /\ notifications' =
               Append(notifications, [login |-> l, kind |-> "error", by |-> "poll"])
          /\ isLoginInProgress' = SetState(isLoginInProgress, FALSE)
          /\ timers' = ClearCurrentTimer(timers)
          /\ completed' = completed \cup {l}
          /\ UNCHANGED <<authUrl, loading, listPending>>
     ELSE UNCHANGED <<notifications, isLoginInProgress, authUrl, timers, loading,
                      listPending, completed>>
  /\ UNCHANGED <<mounted, loadingBlocksClick, oauthState, pollingTimer, authPending,
                 logins, pureVars>>

\* A getAuthStatus request of login l rejects: console.error.
PollReject(l) ==
  /\ l \in 1..Len(polls)
  /\ polls[l] > 0
  /\ polls' = [polls EXCEPT ![l] = @ - 1]
  /\ UNCHANGED <<mounted, loadingBlocksClick, loading, listPending, isLoginInProgress,
                 authUrl, oauthState, pollingTimer, timers, authPending, logins,
                 notifications, completed, pureVars>>

\* A click on the refresh button: loadTraeConfigs up to its await.
Refresh ==
  /\ mounted
  /\ ~loading
  /\ listPending < MaxListPending
  /\ loading' = TRUE
  /\ listPending' = listPending + 1
  /\ UNCHANGED <<mounted, loadingBlocksClick, isLoginInProgress, authUrl, oauthState,
                 pollingTimer, timers, authPending, polls, logins, notifications,
                 completed, pureVars>>

\* authFilesApi.list resolves or rejects: setConfigs or console.error, then the
\* finally of loadTraeConfigs.
ListSettle ==
  /\ listPending > 0
  /\ listPending' = listPending - 1
  /\ loading' = SetState(loading, FALSE)
  /\ UNCHANGED <<mounted, loadingBlocksClick, isLoginInProgress, authUrl, oauthState,
                 pollingTimer, timers, authPending, polls, logins, notifications,
                 completed, pureVars>>

\* The cleanup of the effect.
Unmount ==
  /\ mounted
  /\ mounted' = FALSE
  /\ timers' = ClearCurrentTimer(timers)
  /\ UNCHANGED <<loadingBlocksClick, loading, listPending, isLoginInProgress, authUrl,
                 oauthState, pollingTimer, authPending, polls, logins, notifications,
                 completed, pureVars>>

NextTrae ==
  \/ HandleLogin
  \/ \E l \in 1..MaxLogins : \E hasState \in BOOLEAN : StartAuthResolve(l, hasState)
  \/ \E l \in 1..MaxLogins : StartAuthReject(l)
  \/ \E l \in 1..MaxLogins : Tick(l)
  \/ \E l \in 1..MaxLogins : \E status \in PollStatuses : PollResolve(l, status)
  \/ \E l \in 1..MaxLogins : PollReject(l)
  \/ Refresh
  \/ ListSettle
  \/ Unmount

SpecTrae == InitTrae /\ [][NextTrae]_vars

-----------------------------------------------------------------------------
(* Properties of the polling of TraeSection, as formulas over a step. *)

\* The step handles a poll response of login l with status 'ok' or 'error'.
TerminalHandled(l) == PollResolve(l, "ok") \/ PollResolve(l, "error")

\* The step handles a poll response of login l with another status, or the failure
\* of the status request.
NonTerminalHandled(l) == PollResolve(l, "wait") \/ PollReject(l)

\* After the step the timer of login l is not live and, the component being mounted,
\* isLoginInProgress is false.
TimerClearedAndFlagReset(l) ==
  TerminalHandled(l) => (l \notin timers' /\ (mounted => ~isLoginInProgress'))

\* The step issues no getAuthStatus request for a login that is completed.
NoFurtherRequest(l) == l \in completed => polls'[l] <= polls[l]

\* The step shows no notification for a login that is completed.
NoFurtherNotification(l) ==
  l \in completed =>
    \/ notifications' = notifications
    \/ notifications'[Len(notifications')].login # l

\* The step leaves the timers and isLoginInProgress as they are.
PollingContinues(l) ==
  NonTerminalHandled(l) => (timers' = timers /\ isLoginInProgress' = isLoginInProgress)

\* C20: once a poll response with status 'ok' or 'error' has been handled for a
\* login, its interval timer is cleared and isLoginInProgress is false, no further
\* getAuthStatus request is issued and no further notification is shown for that
\* login; a response with another status, or a failed status request, leaves the
\* timer active and isLoginInProgress as it is.
C20_PollingRunsUntilCompletion ==
  [][\A l \in 1..Len(polls) :
       /\ TimerClearedAndFlagReset(l)
       /\ NoFurtherRequest(l)
       /\ NoFurtherNotification(l)
       /\ PollingContinues(l)]_vars

\* Polling for login l is what the component is doing: its timer is live and is the
\* one recorded in pollingTimer.
PollingFor(l) == l \in timers /\ pollingTimer = Some(l)

\* The step handles a poll response of login l, whatever the status, or the failure
\* of its status request.
ResponseHandled(l) == TerminalHandled(l) \/ NonTerminalHandled(l)

\* C21: while polling for a later login is active, the handling of a poll response
\* of an earlier login leaves the live timers, isLoginInProgress and authUrl
\* unchanged.
C21_StaleResponseLeavesLaterLogin ==
  [][\A earlier, later \in 1..Len(polls) :
       (earlier < later /\ PollingFor(later) /\ ResponseHandled(earlier))
         => /\ timers' = timers
            /\ isLoginInProgress' = isLoginInProgress
            /\ authUrl' = authUrl]_vars

\* C22: whenever isLoginInProgress is true (the component being mounted), a
\* startAuth request is in flight or a polling timer is live.
C22_LoginInProgressNeverStuck ==
  (mounted /\ isLoginInProgress) => (authPending # {} \/ timers # {})

-----------------------------------------------------------------------------
(* buildGeminiCliQuotaBuckets on model ids and token types chosen for the  *)
(* emitted id: ids outside the lookup table, one of them another followed  *)
(* by "-input", and one that is a group id of the table followed by        *)
(* "-input".                                                               *)

GeminiCustom == "custom-model"
GeminiCustomInput == "custom-model-input"
GeminiFlashSeriesInput == "gemini-flash-series-input"

GeminiIdBuckets ==
  { [modelId |-> m, tokenType |-> tt, remainingFraction |-> Some(80),
     remainingAmount |-> Some(500), resetTime |-> Some(ResetEarly)] :
      m \in {GeminiProPreferred, GeminiFlash, GeminiCustom, GeminiCustomInput,
             GeminiFlashSeriesInput},
      tt \in GeminiTokenTypes }

InitGeminiIds ==
  /\ call = "buildGeminiCliQuotaBuckets"
  /\ \E k \in 0..MaxBuckets : buckets \in [1..k -> GeminiIdBuckets]
  /\ models = <<>>
  /\ bucketStates = <<>>
  /\ groups = <<>>
  /\ pc = "called"
  /\ args = <<>>
  /\ result = <<>>
  /\ heap = <<>>
  /\ NoTraeSection

SpecGeminiIds == InitGeminiIds /\ [][GeminiCall]_vars

\* C23: the groups returned by one call have pairwise distinct ids.
C23_GroupIdsPairwiseDistinct ==
  GeminiReturned =>
    \A i, j \in 1..Len(bucketStates) :
      i # j => bucketStates[i].id # bucketStates[j].id

-----------------------------------------------------------------------------
(* buildAntigravityQuotaGroups on payloads that may hold a model whose id  *)
(* is the id of the merged group.                                          *)

AntigravityIdModelIds == {"claude-merged", "claude-opus", "Claude-Sonnet", "ulw", "ULW"}

InitAntigravityIds ==
  /\ call \in {"buildAntigravityQuotaGroups", "buildAntigravityQuotaGroupsFlat"}
  /\ buckets = <<>>
  /\ \E k \in 0..MaxModels :
       \E ids \in [1..k -> AntigravityIdModelIds] :
         /\ Injective(k, ids)
         /\ \E es \in [1..k -> PurityEntries] : models = EntriesOf(k, ids, es)
  /\ bucketStates = <<>>
  /\ groups = <<>>
  /\ pc = "called"
  /\ args = <<>>
  /\ result = <<>>
  /\ heap = <<>>
  /\ NoTraeSection

SpecAntigravityIds == InitAntigravityIds /\ [][NextAntigravity]_vars

\* The number of positions of the sequence that hold the value.
Occurrences(q, x) == Cardinality({ n \in 1..Len(q) : q[n] = x })

\* C24: every model that is neither ignored nor dropped is listed once, by exactly
\* one group; every model a group lists is such a model; and the ids of the groups
\* are pairwise distinct.
C24_GroupsPartitionSurvivingModels ==
  AntigravityReturned =>
    /\ \A i \in SurvivingIdx :
         /\ Cardinality(GroupsListing(models[i].modelId)) = 1
         /\ \A k \in GroupsListing(models[i].modelId) :
              Occurrences(groups[k].models, models[i].modelId) = 1
    /\ \A k \in 1..Len(groups) :
         \A m \in SeqToSet(groups[k].models) :
           \E i \in SurvivingIdx : models[i].modelId = m
    /\ \A k, n \in 1..Len(groups) : k # n => groups[k].id # groups[n].id

\* C24 witness: a payload with a surviving model whose id is "claude-merged", another
\* member of the family and a model outside it: two groups, the merged one listing
\* the first two.
C24_Witness ==
  /\ AntigravityReturned
  /\ Len(models) = 3
  /\ SurvivingIdx = {1, 2, 3}
  /\ Len(groups) = 2
  /\ groups[1].id = "claude-merged"
  /\ Len(groups[1].models) = 2
  /\ "claude-merged" \in SeqToSet(groups[1].models)
  /\ groups[2].id = "ULW"

\* C25: at most one interval timer is live, and a live timer is the one recorded in
\* pollingTimer (the one the next startPolling clears first).
C25_AtMostOneLiveTimer ==
  /\ Cardinality(timers) <= 1
  /\ \A l \in timers : pollingTimer = Some(l)

\* C25 witness: the timer of the second login is the live one, and the first login
\* was still polling when the second started: it has a status request in flight
\* and has had no terminal response.
C25_Witness ==
  /\ mounted
  /\ timers = {2}
  /\ pollingTimer = Some(2)
  /\ polls[1] > 0
  /\ 1 \notin completed

\* C26: once the component is unmounted, no interval timer is live and no
\* getAuthStatus request is started.
C26_NoPollingAfterUnmount ==
  [][~mounted' =>
       /\ timers' = {}
       /\ \A l \in 1..Len(polls) : polls'[l] <= polls[l]]_vars

====
